---- MODULE Spec2Model ----
(***************************************************************************)
(* Chain ledger, peer synchronisation and peer handshake of veritas-chain. *)
(*                                                                         *)
(* One node is modelled: its genesis record and master key pair            *)
(* (genesis.mjs), its block sequence with the chain hash and chain         *)
(* signature (chain.mjs), and the operations other components and remote   *)
(* peers invoke on it.  Hashes and signatures are symbolic: a hash is the  *)
(* tagged preimage (so two hashes are equal exactly when the hashed data   *)
(* are equal) and a signature names the signing key and the signed data.   *)
(***************************************************************************)
EXTENDS Integers, Sequences, FiniteSets, TLC

VARIABLES
  genesisBlock,    \* genesis.mjs: let genesisBlock
  masterKeyPair,   \* genesis.mjs: let masterKeyPair
  chain,           \* chain.mjs: const chain = []
  chainHash,       \* chain.mjs: let chainHash
  chainSignature,  \* chain.mjs: let chainSignature
  ret,             \* the last call: its name, its result, facts about its arguments
  hsResponse,      \* the response handed to the last validateHandshakeResponse
  hsResult,        \* what that validateHandshakeResponse returned
  connectedPeers,  \* peer-gossip.mjs: let connectedPeers = new Map()
  gossipCall,      \* the message and sender handed to the last handleGossip
  gossipResult,    \* what that handleGossip returned
  ledgerCall,      \* the hash and block handed to the last updateBlockInChain or removeBlock
  boot,            \* index.mjs: the process, its data directory and the bootstrap it runs
  syncRun,         \* the peer list of the last syncWithBestPeer, its attempts and its result
  blockOp,         \* the last operation on a block of the chain
  blockCall,       \* a block object outside the chain and the last block.mjs call on it
  netCall,         \* the promise, socket, timer and text of an outbound call
  syncTask,        \* the syncWithPeer calls in progress: where each one is suspended
  server,          \* network.mjs: an inbound connection, its dataBuffer and the messages dispatched
  hsRound,         \* the handshakeWithPeers call in progress: the promise of each address
  apiCall,         \* index.mjs: the last HTTP request handled and the status it was answered with
  outbox,          \* the last handshake message this node built
  inbox,           \* the last event a peer broadcast to this node, and that peer's chain
  staged           \* the last replaceChain wrote its candidate into chain, chainHash, chainSignature

\* the state of the components a specification leaves alone
gossipVars == <<connectedPeers, gossipCall, gossipResult>>

\* the processes around the ledger
procVars == <<boot, syncRun, blockOp>>

\* calls observed on their own, outside a running node
\* asynchronous functions in progress inside a running node
taskVars == <<syncTask, server, hsRound, apiCall, outbox, inbox>>

ioVars == <<blockCall, netCall, taskVars>>

others == <<gossipVars, ledgerCall, procVars, ioVars>>

vars == <<genesisBlock, masterKeyPair, chain, chainHash, chainSignature,
          ret, hsResponse, hsResult, staged, others>>

ledger == <<genesisBlock, masterKeyPair, chain, chainHash, chainSignature>>

(***************************************************************************)
(* Bounds                                                                  *)
(***************************************************************************)
MaxLen == 2       \* longest block sequence held or offered
MaxTime == 2      \* timestamps are 1..MaxTime
MaxCalls == 2     \* updateBlockInChain and removeBlock calls on one ledger
MaxRuns == 2      \* processes started on one data directory
MaxPeers == 4     \* longest peer list handed to syncWithBestPeer
MaxRotations == 2 \* config: identity.maxKeyRotations
MaxUses == 2      \* largest maxUses a token is issued with
MaxSyncs == 1     \* syncWithPeer calls of each of the two callers
MaxLocal == 1     \* updateBlockInChain and removeBlock calls beside the sync attempts
MaxSigs == 2      \* signatures in one request
MaxLines == 2     \* lines a peer sends on one inbound connection
MaxBytes == 3     \* pieces of text a peer sends on one connection
MaxRequests == 2  \* POST /api/register requests in flight at once
StaleTicks == 2   \* clock ticks that stand for the 5 minutes after which a lock is stale

Times == 1..MaxTime

(***************************************************************************)
(* Values                                                                  *)
(***************************************************************************)
Null == "null"                 \* JavaScript null for keys, ids and timestamps
NullTime == 0                  \* JavaScript null where a timestamp is expected
NullHash == <<"null">>         \* JavaScript null where a hash string is expected
NoSig == [signer |-> "null", msg |-> <<"null">>]   \* null where a signature is expected

MasterKey == "M"               \* the trust-anchor key pair
Owner == "K"                   \* a block owner's key pair
Intruder == "X"                \* a key pair unrelated to the chain
ChainIds == {"c1", "c2"}
Payload == "enc"               \* the encryptedData of a block
GenesisTime == 1               \* createdAt of a genesis record

NoGenesis == [chainId |-> Null, createdAt |-> 0, masterPubKey |-> Null,
              chainSignature |-> NoSig, networkHandshakeToken |-> Null]

(***************************************************************************)
(* crypto.mjs                                                              *)
(***************************************************************************)
sha512(data) == <<"sha512", data>>

\* a private key is named by its key pair
signEd25519(data, privateKey) == [signer |-> privateKey, msg |-> data]

verifyEd25519(data, signature, publicKey) ==
  /\ signature # NoSig
  /\ publicKey # Null
  /\ data # NullHash
  /\ signature.signer = publicKey
  /\ signature.msg = data

(***************************************************************************)
(* block.mjs                                                               *)
(***************************************************************************)
calculateBlockHash(block) ==
  sha512(<<"hashData", block.encryptedData, block.tokens, block.createdAt,
           block.updatedAt, block.ownerPubKey, block.lifecycleStage,
           block.deathDate, block.rotationsLeft, block.prevHash>>)

\* the string a block signature covers
blockData(block) ==
  <<"blockData", block.hash, block.encryptedData, block.createdAt,
    block.updatedAt, block.ownerPubKey, block.lifecycleStage, block.deathDate,
    block.rotationsLeft, block.prevHash>>

verifyBlockSignature(block) ==
  /\ block.signature # NoSig
  /\ block.ownerPubKey # Null
  /\ verifyEd25519(blockData(block), block.signature, block.ownerPubKey)

verifyBlockHash(block) == calculateBlockHash(block) = block.hash

createBlock(data, updatedAt, ownerPublicKey, prevHash) ==
  LET b0 == [encryptedData |-> data, tokens |-> {}, createdAt |-> updatedAt,
             updatedAt |-> updatedAt, ownerPubKey |-> ownerPublicKey,
             lifecycleStage |-> "genesis", deathDate |-> NullTime,
             rotationsLeft |-> MaxRotations, prevHash |-> prevHash,
             hash |-> NullHash, signature |-> NoSig]
      b1 == [b0 EXCEPT !.hash = calculateBlockHash(b0)]
  IN  [b1 EXCEPT !.signature = signEd25519(blockData(b1), ownerPublicKey)]

(***************************************************************************)
(* utils.mjs                                                               *)
(***************************************************************************)
isValidBlockStructure(block) ==
  /\ block.hash # NullHash
  /\ block.signature # NoSig

(***************************************************************************)
(* genesis.mjs                                                             *)
(***************************************************************************)
genesisData(block) ==
  <<"genesisData", block.chainId, block.createdAt, block.masterPubKey>>

verifyGenesisBlock(block) ==
  /\ block # NoGenesis
  /\ block.masterPubKey # Null
  /\ block.chainSignature # NoSig
  /\ verifyEd25519(genesisData(block), block.chainSignature, block.masterPubKey)

createGenesisBlock(chainId, keyPair, token) ==
  LET g0 == [chainId |-> chainId, createdAt |-> GenesisTime,
             masterPubKey |-> keyPair, chainSignature |-> NoSig,
             networkHandshakeToken |-> token]
  IN  [g0 EXCEPT !.chainSignature = signEd25519(genesisData(g0), keyPair)]

\* the master key pair after setGenesisBlock(block): the key pair concealed
\* in the token is taken when none is known yet
setGenesisBlockKey(block, keyPair) ==
  IF block # NoGenesis /\ block.networkHandshakeToken # Null /\ keyPair = Null
  THEN block.networkHandshakeToken
  ELSE keyPair

(***************************************************************************)
(* chain.mjs                                                               *)
(***************************************************************************)
blockHashes(c) == [i \in 1..Len(c) |-> c[i].hash]

calculateChainHash(g, c) ==
  IF g = NoGenesis THEN NullHash
  ELSE sha512(<<"chainData", g.chainId, blockHashes(c), Len(c)>>)

\* <<chainHash, chainSignature>> after updateChainHash()
updateChainHash(g, keyPair, c, oldSignature) ==
  LET h == calculateChainHash(g, c)
  IN  <<h, IF keyPair # Null /\ h # NullHash
           THEN signEd25519(h, keyPair) ELSE oldSignature>>

verifyChainAuthenticity(hash, signature, masterPubKey) ==
  verifyEd25519(hash, signature, masterPubKey)

verifyChainIntegrityOf(g, c, h, s) ==
  /\ \A i \in 1..Len(c) :
       /\ verifyBlockHash(c[i])
       /\ verifyBlockSignature(c[i])
       /\ (i > 1 => c[i].prevHash = c[i-1].hash)
  /\ calculateChainHash(g, c) = h
  /\ (g # NoGenesis /\ s # NoSig => verifyChainAuthenticity(h, s, g.masterPubKey))

verifyChainIntegrity ==
  verifyChainIntegrityOf(genesisBlock, chain, chainHash, chainSignature)

\* the JSON object {} where a block is expected: it has no metadata, and
\* calculateBlockHash throws a TypeError reading block.metadata.createdAt
Undefined == "undefined"

EmptyObject ==
  [encryptedData |-> Undefined, tokens |-> {}, createdAt |-> NullTime,
   updatedAt |-> NullTime, ownerPubKey |-> Undefined, lifecycleStage |-> Undefined,
   deathDate |-> NullTime, rotationsLeft |-> 0, prevHash |-> <<Undefined>>,
   hash |-> <<Undefined>>, signature |-> NoSig]

hasMetadata(block) == block.ownerPubKey # Undefined

\* the loop of verifyChainIntegrity reaches a block without metadata: every
\* block before it passed its checks, and verifyBlockHash throws
verifyChainIntegrityThrows(c) ==
  \E i \in 1..Len(c) :
    /\ ~hasMetadata(c[i])
    /\ \A j \in 1..(i - 1) :
         /\ hasMetadata(c[j])
         /\ verifyBlockHash(c[j])
         /\ verifyBlockSignature(c[j])
         /\ (j > 1 => c[j].prevHash = c[j-1].hash)

\* lastUpdated is null for an empty chain; NullTime stands for that null
\* (JavaScript compares null as 0 and every timestamp is positive)
lastUpdatedOf(c) == IF Len(c) > 0 THEN c[Len(c)].updatedAt ELSE NullTime

getChainMetadata ==
  [chainId |-> genesisBlock.chainId,
   length |-> Len(chain),
   chainHash |-> chainHash,
   chainSignature |-> chainSignature,
   masterPubKey |-> genesisBlock.masterPubKey,
   lastUpdated |-> lastUpdatedOf(chain)]

\* replaceChain that forgets to restore the saved state
replaceChainOutcome_noRollback(g, c, h, s, newChain, newChainHash, newChainSignature) ==
  IF g = NoGenesis
  THEN [ret |-> "threw", chain |-> c, chainHash |-> h, chainSignature |-> s,
        staged |-> FALSE]
  ELSE IF ~verifyChainAuthenticity(newChainHash, newChainSignature, g.masterPubKey)
  THEN [ret |-> "false", chain |-> c, chainHash |-> h, chainSignature |-> s,
        staged |-> FALSE]
  ELSE IF verifyChainIntegrityThrows(newChain)
  THEN [ret |-> "threw", chain |-> newChain, chainHash |-> newChainHash,
        chainSignature |-> newChainSignature, staged |-> TRUE]
  ELSE IF ~verifyChainIntegrityOf(g, newChain, newChainHash, newChainSignature)
  THEN [ret |-> "false", chain |-> newChain, chainHash |-> newChainHash,
        chainSignature |-> newChainSignature, staged |-> TRUE]
  ELSE [ret |-> "true", chain |-> newChain, chainHash |-> newChainHash,
        chainSignature |-> newChainSignature, staged |-> TRUE]

\* replaceChain that commits without running verifyChainIntegrity
replaceChainOutcome_noIntegrity(g, c, h, s, newChain, newChainHash, newChainSignature) ==
  IF g = NoGenesis
  THEN [ret |-> "threw", chain |-> c, chainHash |-> h, chainSignature |-> s,
        staged |-> FALSE]
  ELSE IF ~verifyChainAuthenticity(newChainHash, newChainSignature, g.masterPubKey)
  THEN [ret |-> "false", chain |-> c, chainHash |-> h, chainSignature |-> s,
        staged |-> FALSE]
  ELSE [ret |-> "true", chain |-> newChain, chainHash |-> newChainHash,
        chainSignature |-> newChainSignature, staged |-> TRUE]

\* replaceChain that stages the candidate before it looks at the signature
replaceChainOutcome_stageFirst(g, c, h, s, newChain, newChainHash, newChainSignature) ==
  IF g = NoGenesis
  THEN [ret |-> "threw", chain |-> c, chainHash |-> h, chainSignature |-> s,
        staged |-> FALSE]
  ELSE IF ~verifyChainAuthenticity(newChainHash, newChainSignature, g.masterPubKey)
  THEN [ret |-> "false", chain |-> c, chainHash |-> h, chainSignature |-> s,
        staged |-> TRUE]
  ELSE IF verifyChainIntegrityThrows(newChain)
  THEN [ret |-> "threw", chain |-> newChain, chainHash |-> newChainHash,
        chainSignature |-> newChainSignature, staged |-> TRUE]
  ELSE IF ~verifyChainIntegrityOf(g, newChain, newChainHash, newChainSignature)
  THEN [ret |-> "false", chain |-> c, chainHash |-> h, chainSignature |-> s,
        staged |-> TRUE]
  ELSE [ret |-> "true", chain |-> newChain, chainHash |-> newChainHash,
        chainSignature |-> newChainSignature, staged |-> TRUE]

\* what replaceChain(newChain, newChainHash, newChainSignature) returns and
\* leaves in chain, chainHash and chainSignature; staged tells whether the
\* candidate was written into them during the call.  An exception thrown by
\* verifyChainIntegrity leaves the function with the candidate staged: the
\* restoring statements are not in a finally block
replaceChainOutcome(g, c, h, s, newChain, newChainHash, newChainSignature) ==
  IF g = NoGenesis
  THEN [ret |-> "threw", chain |-> c, chainHash |-> h, chainSignature |-> s,
        staged |-> FALSE]
  ELSE IF ~verifyChainAuthenticity(newChainHash, newChainSignature, g.masterPubKey)
  THEN [ret |-> "false", chain |-> c, chainHash |-> h, chainSignature |-> s,
        staged |-> FALSE]
  ELSE IF verifyChainIntegrityThrows(newChain)
  THEN [ret |-> "threw", chain |-> newChain, chainHash |-> newChainHash,
        chainSignature |-> newChainSignature, staged |-> TRUE]
  ELSE IF ~verifyChainIntegrityOf(g, newChain, newChainHash, newChainSignature)
  THEN [ret |-> "false", chain |-> c, chainHash |-> h, chainSignature |-> s,
        staged |-> TRUE]
  ELSE [ret |-> "true", chain |-> newChain, chainHash |-> newChainHash,
        chainSignature |-> newChainSignature, staged |-> TRUE]

\* addBlock that does not look at prevHash
addBlockAccepts_noLink(c, newBlock) ==
  /\ isValidBlockStructure(newBlock)
  /\ verifyBlockHash(newBlock)
  /\ verifyBlockSignature(newBlock)

\* whether addBlock(newBlock) accepts the block on top of c
addBlockAccepts(c, newBlock) ==
  /\ isValidBlockStructure(newBlock)
  /\ verifyBlockHash(newBlock)
  /\ verifyBlockSignature(newBlock)
  /\ IF Len(c) > 0 THEN newBlock.prevHash = c[Len(c)].hash
                   ELSE newBlock.prevHash = NullHash

(***************************************************************************)
(* What callers and peers can hand to the node                             *)
(***************************************************************************)
BogusHash == sha512(<<"bogus">>)

\* a correctly hashed and signed block that is in no chain the node holds
OrphanBlock == createBlock(Payload, 1, Intruder, NullHash)

\* a block as a faulty or hostile sender would alter it
Tamper(block, kind) ==
  CASE kind = "hash" ->
         LET b1 == [block EXCEPT !.hash = BogusHash]
         IN  [b1 EXCEPT !.signature = signEd25519(blockData(b1), block.ownerPubKey)]
    [] kind = "signature" ->
         [block EXCEPT !.signature = signEd25519(blockData(block), Intruder)]
    [] kind = "unsigned" -> [block EXCEPT !.signature = NoSig]
    [] kind = "empty" -> EmptyObject
    [] OTHER -> block

\* at most one fault per offered sequence: where it is and what it is
NoDefect == [pos |-> 0, kind |-> "none"]

Defects(n) ==
  {NoDefect}
    \cup [pos : 1..n, kind : {"hash", "signature", "prevOrphan"}]
    \cup [pos : 2..n, kind : {"prevNull"}]

RECURSIVE BuildChain(_, _, _, _)
\* blocks i..Len(ts) with timestamps ts, the first following the hash prev
BuildChain(prev, ts, d, i) ==
  IF i > Len(ts) THEN <<>>
  ELSE LET p == IF d.pos = i /\ d.kind = "prevOrphan" THEN OrphanBlock.hash
                ELSE IF d.pos = i /\ d.kind = "prevNull" THEN NullHash
                ELSE prev
           b == Tamper(createBlock(Payload, ts[i], Owner, p),
                       IF d.pos = i THEN d.kind ELSE "none")
       IN  <<b>> \o BuildChain(b.hash, ts, d, i + 1)

\* the block sequences of 0..n blocks a peer can offer after the hash prev
OfferedBlocks(prev, n) ==
  UNION { { BuildChain(prev, ts, d, 1) : d \in Defects(k), ts \in [1..k -> Times] }
          : k \in 0..n }

\* the sequences of 1..n entries whose last entry is the object {}
MalformedBlocks(prev, n) ==
  UNION { { BuildChain(prev, ts, [pos |-> k, kind |-> "empty"], 1) :
              ts \in [1..k -> Times] } : k \in 1..n }

\* the well-formed chains of up to MaxLen blocks addBlock builds
LocalChains ==
  UNION { { BuildChain(NullHash, ts, NoDefect, 1) : ts \in [1..k -> Times] }
          : k \in 0..MaxLen }

tailHash(c) == IF Len(c) > 0 THEN c[Len(c)].hash ELSE NullHash

\* the chain hash a node with chain id cid computes for the sequence c
peerChainHash(cid, c) == sha512(<<"chainData", cid, blockHashes(c), Len(c)>>)

\* the chain hash of some other sequence
otherChainHash(cid, c) == peerChainHash(cid, c \o <<OrphanBlock>>)

TopKinds == {"signed", "foreign", "unsigned", "otherHash", "replayed"}

\* <<chainHash, chainSignature>> sent along with the sequence c
OfferedTop(cid, c, kind) ==
  LET h == peerChainHash(cid, c)
      o == otherChainHash(cid, c)
  IN  CASE kind = "signed" -> <<h, signEd25519(h, MasterKey)>>
        [] kind = "foreign" -> <<h, signEd25519(h, Intruder)>>
        [] kind = "unsigned" -> <<h, NoSig>>
        [] kind = "otherHash" -> <<o, signEd25519(o, MasterKey)>>
        [] OTHER -> <<h, signEd25519(o, MasterKey)>>

\* the chain id of the network the node belongs to
LocalChainId == "c1"

\* its genesis record as created by the node holding the master key, with
\* or without the master key pair concealed in the token
Geneses ==
  { createGenesisBlock(LocalChainId, MasterKey, tok) : tok \in {Null, MasterKey} }

\* genesis records a peer or a storage file can present
OfferedGeneses ==
  Geneses
    \cup { [g EXCEPT !.chainSignature = signEd25519(genesisData(g), Intruder)] :
             g \in Geneses }
    \cup { [createGenesisBlock(LocalChainId, MasterKey, Null) EXCEPT !.chainSignature = NoSig],
           [createGenesisBlock(LocalChainId, MasterKey, Null) EXCEPT !.masterPubKey = Null] }

\* facts about an offered sequence, hash and signature, for the properties
Facts(g, newChain, h, s) ==
  [len |-> Len(newChain),
   sigOK |-> g # NoGenesis /\ verifyChainAuthenticity(h, s, g.masterPubKey),
   hashOK |-> g # NoGenesis /\ h = peerChainHash(g.chainId, newChain),
   blocksOK |-> \A i \in 1..Len(newChain) :
                  verifyBlockHash(newChain[i]) /\ verifyBlockSignature(newChain[i]),
   linksOK |-> \A i \in 2..Len(newChain) :
                 newChain[i].prevHash = newChain[i-1].hash,
   headOK |-> Len(newChain) > 0 => newChain[1].prevHash = NullHash]

\* an offered sequence passes every integrity check
CandidateIntegral(f) == f.blocksOK /\ f.linksOK /\ f.hashOK /\ f.sigOK

NoFacts == Facts(NoGenesis, <<>>, NullHash, NoSig)

\* facts about a sync response: whether it is the answer of an honest peer
\* holding an extension of the local chain, what genesis it carries, and
\* whether applying it called replaceChain
NoSync == [honest |-> FALSE, blocks |-> 0, candidate |-> "none", replaced |-> FALSE]

Ret(op, r, f, sy) == [op |-> op, ret |-> r, facts |-> f, sync |-> sy]

\* no handshake response, and no validation result yet
NoResponse ==
  [type |-> Null, chainId |-> Null, chainLength |-> 0, chainHash |-> NullHash,
   chainSignature |-> NoSig, masterPubKey |-> Null, lastUpdated |-> NullTime]

NoResult ==
  [valid |-> FALSE, reason |-> Null, needsSync |-> "absent",
   peerChainLength |-> 0, peerLastUpdated |-> NullTime]

\* peer addresses, and the entry of an address connectedPeers does not hold
Peers == {"p1", "p2"}

NoInfo == [chainLength |-> 0, chainHash |-> NullHash, lastUpdated |-> NullTime,
           lastSeen |-> NullTime]

NoGossipCall ==
  [message |-> [type |-> Null, chainLength |-> 0, chainHash |-> NullHash,
                lastUpdated |-> NullTime],
   peerAddress |-> Null]

NoGossipResult ==
  [action |-> Null, reason |-> Null, peerAddress |-> Null, chainLength |-> 0,
   lastUpdated |-> NullTime]

InitGossip ==
  /\ connectedPeers = [p \in Peers |-> NoInfo]
  /\ gossipCall = NoGossipCall
  /\ gossipResult = NoGossipResult

\* no block, and no call of updateBlockInChain or removeBlock yet
NoBlock == [encryptedData |-> Null, tokens |-> {}, createdAt |-> NullTime,
            updatedAt |-> NullTime, ownerPubKey |-> Null, lifecycleStage |-> Null,
            deathDate |-> NullTime, rotationsLeft |-> 0,
            prevHash |-> NullHash, hash |-> NullHash, signature |-> NoSig]

NoLedgerCall == [hash |-> NullHash, block |-> NoBlock, index |-> 0, calls |-> 0]

\* storage.mjs: no chain.json, and a data directory without files
NoSnapshot == [present |-> FALSE, chain |-> <<>>, chainHash |-> NullHash,
               chainSignature |-> NoSig]

EmptyDisk == [genesis |-> NoGenesis, snapshot |-> NoSnapshot]

\* a remote node that does not answer, and no best peer
Unreachable == [reachable |-> FALSE, genesisBlock |-> NoGenesis, chain |-> <<>>,
                chainHash |-> NullHash, chainSignature |-> NoSig]

NoPeer == [address |-> Null, chainLength |-> 0, lastUpdated |-> NullTime]

\* the processes that run initStorage on one storage path
Processes == 1..MaxRuns

\* no .zkic.lock file in the storage directory
NoLock == [exists |-> FALSE, pid |-> 0, timestamp |-> 0]

\* a process that has not called initStorage: lockAcquired is false
NoStorage == [pc |-> "idle", read |-> Null, timestamp |-> 0, lockAcquired |-> FALSE,
              error |-> Null]

\* no bootstrap is running
NoBoot ==
  [pc |-> "idle", disk |-> EmptyDisk, keyFile |-> FALSE,
   net |-> [p \in Peers |-> Unreachable], hasPeers |-> FALSE,
   bestPeer |-> NoPeer, branch |-> Null, created |-> FALSE,
   hadLocal |-> FALSE, responded |-> FALSE, error |-> Null, runs |-> 0,
   clock |-> 0, lock |-> NoLock, storage |-> [p \in Processes |-> NoStorage]]

\* no syncWithBestPeer call yet
NoSyncRun == [peers |-> <<>>, attempts |-> <<>>, outcomes |-> <<>>, ret |-> "none",
              revision |-> Null, calls |-> 0]

\* no operation on a block yet
NoBlockOp == [op |-> Null, index |-> 0, ret |-> "none", calls |-> 0]

\* no block.mjs call on a block object yet
NoBlockCall == [op |-> Null, before |-> NoBlock, block |-> NoBlock, ret |-> "none"]

\* no outbound call yet
NoNetCall == [fn |-> Null, pc |-> "idle", reason |-> Null, responseData |-> <<>>,
              over |-> FALSE, timer |-> "none", socket |-> "none",
              returned |-> "none",
              before |-> [genesisBlock |-> NoGenesis, masterKeyPair |-> Null,
                          chain |-> <<>>, chainHash |-> NullHash,
                          chainSignature |-> NoSig]]

\* the two callers of syncWithPeer that run beside each other
SyncTasks == {"gossip", "timer"}

NoSyncTask == [pc |-> "idle", fromIndex |-> 0, runs |-> 0, snapshot |-> "none",
               returned |-> "none"]

\* the P2P server without a connection
NoConnection == [pc |-> "listening", wire |-> <<>>, received |-> <<>>,
                 dataBuffer |-> <<>>, dispatched |-> <<>>]

\* what the peer at an address does when a handshake reaches it
NoAnswer == [does |-> "nothing", response |-> NoResponse]

\* no handshakeWithPeers call yet
NoRound ==
  [pc |-> "idle", revision |-> 0, answers |-> [a \in Peers |-> NoAnswer],
   promise |-> [a \in Peers |-> "none"], value |-> [a \in Peers |-> NoResult],
   returned |-> <<>>, connectedPeers |-> <<>>, activePeers |-> {},
   peersNeedingSync |-> <<>>]

\* nothing built yet
NoMessage == [fn |-> Null, revision |-> 0, message |-> NoResponse]

\* no HTTP request yet
\* the POST /api/register requests a node may be serving at once
Requests == 1..MaxRequests

\* a request that has not arrived yet
NoRequest == [pc |-> "idle", prevHash |-> NullHash, block |-> NoBlock, status |-> 0,
              appended |-> 0]

NoApiCall == [op |-> Null, registrar |-> Null, provided |-> 0, status |-> 0,
              entitled |-> FALSE, calls |-> 0,
              requests |-> [r \in Requests |-> NoRequest]]

\* no event received yet
NoEvent == [type |-> Null, block |-> NoBlock, blockHash |-> NullHash, newStage |-> Null]
NoInbox == [event |-> NoEvent, sender |-> [chain |-> <<>>, chainHash |-> NullHash],
            events |-> 0]

InitTasks ==
  /\ syncTask = [t \in SyncTasks |-> NoSyncTask]
  /\ server = NoConnection
  /\ hsRound = NoRound
  /\ apiCall = NoApiCall
  /\ outbox = NoMessage
  /\ inbox = NoInbox

InitIo ==
  /\ blockCall = NoBlockCall
  /\ netCall = NoNetCall
  /\ InitTasks

InitOthers ==
  /\ InitGossip
  /\ ledgerCall = NoLedgerCall
  /\ boot = NoBoot
  /\ syncRun = NoSyncRun
  /\ blockOp = NoBlockOp
  /\ InitIo

(***************************************************************************)
(* The node                                                                *)
(***************************************************************************)
Init ==
  /\ genesisBlock = NoGenesis
  /\ masterKeyPair = Null
  /\ chain = <<>>
  /\ chainHash = NullHash
  /\ chainSignature = NoSig
  /\ ret = Ret("none", "none", NoFacts, NoSync)
  /\ hsResponse = NoResponse
  /\ hsResult = NoResult
  /\ staged = FALSE
  /\ InitOthers

\* genesis.mjs setMasterKeyPair, called once by the bootstrap that found a
\* stored master key
setMasterKeyPair(keyPair) ==
  /\ masterKeyPair = Null
  /\ genesisBlock = NoGenesis
  /\ masterKeyPair' = keyPair
  /\ ret' = Ret("setMasterKeyPair", "none", NoFacts, NoSync)
  /\ UNCHANGED <<genesisBlock, chain, chainHash, chainSignature, hsResponse, hsResult, staged>>
  /\ UNCHANGED others

\* chain.mjs initializeChain, called by the bootstrap
initializeChain(g) ==
  /\ genesisBlock = NoGenesis
  /\ IF ~verifyGenesisBlock(g)
     THEN /\ ret' = Ret("initializeChain", "threw", NoFacts, NoSync)
          /\ UNCHANGED ledger
     ELSE LET k == setGenesisBlockKey(g, masterKeyPair)
              u == updateChainHash(g, k, <<>>, chainSignature)
          IN  /\ genesisBlock' = g
              /\ masterKeyPair' = k
              /\ chain' = <<>>
              /\ chainHash' = u[1]
              /\ chainSignature' = u[2]
              /\ ret' = Ret("initializeChain", "none", NoFacts, NoSync)
  /\ UNCHANGED <<hsResponse, hsResult, staged>>
  /\ UNCHANGED others

\* chain.mjs addBlock
addBlock(newBlock) ==
  /\ IF addBlockAccepts(chain, newBlock)
     THEN /\ Len(chain) < MaxLen
          /\ LET c == Append(chain, newBlock)
                 u == updateChainHash(genesisBlock, masterKeyPair, c, chainSignature)
             IN  /\ chain' = c
                 /\ chainHash' = u[1]
                 /\ chainSignature' = u[2]
          /\ ret' = Ret("addBlock", "true", NoFacts, NoSync)
     ELSE /\ ret' = Ret("addBlock", "false", NoFacts, NoSync)
          /\ UNCHANGED <<chain, chainHash, chainSignature>>
  /\ UNCHANGED <<genesisBlock, masterKeyPair, hsResponse, hsResult, staged>>
  /\ UNCHANGED others

\* chain.mjs replaceChain
replaceChain(newChain, newChainHash, newChainSignature) ==
  LET o == replaceChainOutcome(genesisBlock, chain, chainHash, chainSignature,
                               newChain, newChainHash, newChainSignature)
  IN  /\ chain' = o.chain
      /\ chainHash' = o.chainHash
      /\ chainSignature' = o.chainSignature
      /\ ret' = Ret("replaceChain", o.ret,
                    Facts(genesisBlock, newChain, newChainHash, newChainSignature),
                    NoSync)
      /\ staged' = o.staged
      /\ UNCHANGED <<genesisBlock, masterKeyPair, hsResponse, hsResult>>
      /\ UNCHANGED others

\* the blocks a caller can hand to addBlock
AddInputs ==
  { Tamper(createBlock(Payload, t, Owner, p), k) :
      t \in Times,
      p \in {NullHash, tailHash(chain), OrphanBlock.hash},
      k \in {"none", "hash", "signature", "unsigned"} }

\* the calls of replaceChain a snapshot or a peer's answer can lead to
ReplaceInputs ==
  { <<c, OfferedTop(LocalChainId, c, k)>> :
      c \in OfferedBlocks(NullHash, MaxLen) \cup MalformedBlocks(NullHash, MaxLen),
      k \in TopKinds }

Next ==
  \/ setMasterKeyPair(MasterKey)
  \/ \E g \in OfferedGeneses : initializeChain(g)
  \/ \E b \in AddInputs : addBlock(b)
  \/ \E i \in ReplaceInputs : replaceChain(i[1], i[2][1], i[2][2])

Spec == Init /\ [][Next]_vars

(***************************************************************************)
(* chain.mjs: updating and removing a block                                *)
(***************************************************************************)
\* chain.findIndex(b => b.hash === hash), counted from 1; 0 when none
findIndex(c, hash) ==
  IF \E i \in 1..Len(c) : c[i].hash = hash
  THEN CHOOSE i \in 1..Len(c) :
         /\ c[i].hash = hash
         /\ \A j \in 1..(i - 1) : c[j].hash # hash
  ELSE 0

RECURSIVE relink(_, _)
\* the loop of updateBlockInChain from position i on: each block takes the
\* hash of the block before it as prevHash and then its recomputed hash
relink(c, i) ==
  IF i > Len(c) THEN c
  ELSE LET b1 == [c[i] EXCEPT !.prevHash = c[i-1].hash]
           b2 == [b1 EXCEPT !.hash = calculateBlockHash(b1)]
       IN  relink([c EXCEPT ![i] = b2], i + 1)

\* updateBlockInChain that leaves the blocks after the updated one alone
updateBlockInChainOutcome_noRelink(c, hash, updatedBlock) ==
  LET index == findIndex(c, hash)
  IN  IF index = 0 THEN [ret |-> "false", chain |-> c]
      ELSE IF ~verifyBlockHash(updatedBlock) THEN [ret |-> "false", chain |-> c]
      ELSE IF ~verifyBlockSignature(updatedBlock) THEN [ret |-> "false", chain |-> c]
      ELSE [ret |-> "true", chain |-> [c EXCEPT ![index] = updatedBlock]]

\* what updateBlockInChain(hash, updatedBlock) returns and leaves in chain
updateBlockInChainOutcome(c, hash, updatedBlock) ==
  LET index == findIndex(c, hash)
  IN  IF index = 0 THEN [ret |-> "false", chain |-> c]
      ELSE IF ~verifyBlockHash(updatedBlock) THEN [ret |-> "false", chain |-> c]
      ELSE IF ~verifyBlockSignature(updatedBlock) THEN [ret |-> "false", chain |-> c]
      ELSE [ret |-> "true",
            chain |-> relink([c EXCEPT ![index] = updatedBlock], index + 1)]

\* chain.mjs updateBlockInChain
updateBlockInChain(hash, updatedBlock) ==
  LET o == updateBlockInChainOutcome(chain, hash, updatedBlock)
      u == updateChainHash(genesisBlock, masterKeyPair, o.chain, chainSignature)
  IN  /\ chain' = o.chain
      /\ chainHash' = IF o.ret = "true" THEN u[1] ELSE chainHash
      /\ chainSignature' = IF o.ret = "true" THEN u[2] ELSE chainSignature
      /\ ret' = Ret("updateBlockInChain", o.ret, NoFacts, NoSync)
      /\ ledgerCall' = [hash |-> hash, block |-> updatedBlock,
                        index |-> findIndex(chain, hash),
                        calls |-> ledgerCall.calls + 1]
      /\ UNCHANGED <<genesisBlock, masterKeyPair, hsResponse, hsResult, staged, gossipVars, procVars, ioVars>>

\* chain.splice(index, 1)
splice(c, index) == SubSeq(c, 1, index - 1) \o SubSeq(c, index + 1, Len(c))

\* removeBlock that removes the tail whatever the hash
removeBlockOutcome_tail(c, hash) ==
  LET index == findIndex(c, hash)
  IN  IF index = 0 THEN [ret |-> "false", chain |-> c]
      ELSE [ret |-> "true", chain |-> splice(c, Len(c))]

\* what removeBlock(hash) returns and leaves in chain
removeBlockOutcome(c, hash) ==
  LET index == findIndex(c, hash)
  IN  IF index = 0 THEN [ret |-> "false", chain |-> c]
      ELSE [ret |-> "true", chain |-> splice(c, index)]

\* chain.mjs removeBlock
removeBlock(hash) ==
  LET o == removeBlockOutcome(chain, hash)
      u == updateChainHash(genesisBlock, masterKeyPair, o.chain, chainSignature)
  IN  /\ chain' = o.chain
      /\ chainHash' = IF o.ret = "true" THEN u[1] ELSE chainHash
      /\ chainSignature' = IF o.ret = "true" THEN u[2] ELSE chainSignature
      /\ ret' = Ret("removeBlock", o.ret, NoFacts, NoSync)
      /\ ledgerCall' = [hash |-> hash, block |-> NoBlock,
                        index |-> findIndex(chain, hash),
                        calls |-> ledgerCall.calls + 1]
      /\ UNCHANGED <<genesisBlock, masterKeyPair, hsResponse, hsResult, staged, gossipVars, procVars, ioVars>>

\* the hashes a caller can name: those of the blocks held, and another
HashInputs == { chain[i].hash : i \in 1..Len(chain) } \cup {BogusHash}

\* the blocks a caller can hand to updateBlockInChain in place of the block
\* with that hash: the owner's new version with the same or another
\* prevHash, intact or altered
UpdateInputs(hash) ==
  LET index == findIndex(chain, hash)
      prev == IF index > 0 THEN chain[index].prevHash ELSE NullHash
  IN  { Tamper(createBlock(Payload, t, Owner, p), k) :
          t \in Times,
          p \in {NullHash, prev},
          k \in {"none", "hash", "signature"} }

\* a node that has its genesis, with or without the master key pair, and
\* the blocks addBlock gave it
InitLedger ==
  /\ genesisBlock = createGenesisBlock(LocalChainId, MasterKey, Null)
  /\ masterKeyPair \in {Null, MasterKey}
  /\ chain \in LocalChains
  /\ chainHash = updateChainHash(genesisBlock, masterKeyPair, chain, NoSig)[1]
  /\ chainSignature = updateChainHash(genesisBlock, masterKeyPair, chain, NoSig)[2]
  /\ ret = Ret("none", "none", NoFacts, NoSync)
  /\ hsResponse = NoResponse
  /\ hsResult = NoResult
  /\ staged = FALSE
  /\ InitOthers

NextLedger ==
  \/ \E b \in AddInputs : addBlock(b)
  \/ /\ ledgerCall.calls < MaxCalls
     /\ \E hash \in HashInputs :
          \E b \in UpdateInputs(hash) : updateBlockInChain(hash, b)
  \/ /\ ledgerCall.calls < MaxCalls
     /\ \E hash \in HashInputs : removeBlock(hash)

SpecLedger == InitLedger /\ [][NextLedger]_vars

(***************************************************************************)
(* peer-sync.mjs                                                           *)
(***************************************************************************)
\* the module imports net, logger, chain and storage only: the identifier
\* genesis that applySyncData reads is bound nowhere, so evaluating
\* genesis.getGenesisBlock() throws a ReferenceError
genesisResolves_imported == TRUE

genesisResolves == FALSE

\* currentChain.slice(0, fromIndex)
slice(c, fromIndex) ==
  SubSeq(c, 1, IF fromIndex < Len(c) THEN fromIndex ELSE Len(c))

\* what applySyncData(syncData) returns and leaves in the node; replaced
\* tells whether it called replaceChain
applySyncDataOutcome(g, keyPair, c, h, s, syncData) ==
  LET same(r) == [ret |-> r, genesisBlock |-> g, masterKeyPair |-> keyPair,
                  chain |-> c, chainHash |-> h, chainSignature |-> s,
                  replaced |-> FALSE, staged |-> FALSE]
      newChain == IF syncData.fromIndex = 0 THEN syncData.blocks
                  ELSE slice(c, syncData.fromIndex) \o syncData.blocks
      candidate == syncData.genesisBlock
      adopt == g = NoGenesis
      g2 == IF adopt THEN candidate ELSE g
      k2 == IF adopt THEN setGenesisBlockKey(candidate, keyPair) ELSE keyPair
      o == replaceChainOutcome(g2, c, h, s, newChain,
                               syncData.chainHash, syncData.chainSignature)
  IN  IF syncData.type # "SYNC_RESPONSE" THEN same("false")
      ELSE IF Len(syncData.blocks) = 0 THEN same("true")
      ELSE IF ~genesisResolves THEN same("false")
      ELSE IF adopt /\ candidate = NoGenesis THEN same("false")
      ELSE IF adopt /\ ~(candidate.masterPubKey # Null /\ candidate.chainSignature # NoSig)
      THEN same("false")
      ELSE [ret |-> o.ret, genesisBlock |-> g2, masterKeyPair |-> k2,
            chain |-> o.chain, chainHash |-> o.chainHash,
            chainSignature |-> o.chainSignature, replaced |-> TRUE,
            staged |-> o.staged]

\* the genesis a sync response carries, as the properties see it
CandidateKind(candidate) ==
  IF candidate = NoGenesis THEN "none"
  ELSE IF candidate.masterPubKey = Null \/ candidate.chainSignature = NoSig
  THEN "unusable"
  ELSE IF ~verifyGenesisBlock(candidate) THEN "forged"
  ELSE "valid"

\* peer-sync.mjs applySyncData
applySyncData(syncData) ==
  LET o == applySyncDataOutcome(genesisBlock, masterKeyPair, chain, chainHash,
                                chainSignature, syncData)
      g == IF genesisBlock = NoGenesis THEN syncData.genesisBlock ELSE genesisBlock
      newChain == slice(chain, syncData.fromIndex) \o syncData.blocks
      f == Facts(g, newChain, syncData.chainHash, syncData.chainSignature)
  IN  /\ genesisBlock' = o.genesisBlock
      /\ masterKeyPair' = o.masterKeyPair
      /\ chain' = o.chain
      /\ chainHash' = o.chainHash
      /\ chainSignature' = o.chainSignature
      /\ ret' = Ret("applySyncData", o.ret, NoFacts,
                    [honest |-> /\ syncData.type = "SYNC_RESPONSE"
                                /\ syncData.fromIndex = Len(chain)
                                /\ Len(syncData.blocks) > 0
                                /\ CandidateIntegral(f) /\ f.headOK,
                     blocks |-> Len(syncData.blocks),
                     candidate |-> CandidateKind(syncData.genesisBlock),
                     replaced |-> o.replaced])
      /\ staged' = IF o.replaced THEN o.staged ELSE staged
      /\ UNCHANGED <<hsResponse, hsResult>>
      /\ UNCHANGED others

\* the applySyncData of the revision without genesis handling: the spliced
\* sequence goes straight to replaceChain, whose TypeError on a node
\* without genesis is not caught (the promise rejects)
applySyncDataReplaceOutcome(g, c, h, s, syncData) ==
  LET same(r) == [ret |-> r, chain |-> c, chainHash |-> h,
                  chainSignature |-> s, replaced |-> FALSE, staged |-> FALSE]
      newChain == IF syncData.fromIndex = 0 THEN syncData.blocks
                  ELSE slice(c, syncData.fromIndex) \o syncData.blocks
      o == replaceChainOutcome(g, c, h, s, newChain,
                               syncData.chainHash, syncData.chainSignature)
  IN  IF syncData.type # "SYNC_RESPONSE" THEN same("false")
      ELSE IF Len(syncData.blocks) = 0 THEN same("true")
      ELSE [ret |-> o.ret, chain |-> o.chain, chainHash |-> o.chainHash,
            chainSignature |-> o.chainSignature, replaced |-> TRUE,
            staged |-> o.staged]

applySyncDataReplace(syncData) ==
  LET o == applySyncDataReplaceOutcome(genesisBlock, chain, chainHash,
                                       chainSignature, syncData)
      newChain == slice(chain, syncData.fromIndex) \o syncData.blocks
      f == Facts(genesisBlock, newChain, syncData.chainHash,
                 syncData.chainSignature)
  IN  /\ chain' = o.chain
      /\ chainHash' = o.chainHash
      /\ chainSignature' = o.chainSignature
      /\ ret' = Ret("applySyncDataReplace", o.ret, NoFacts,
                    [honest |-> /\ syncData.type = "SYNC_RESPONSE"
                                /\ syncData.fromIndex = Len(chain)
                                /\ Len(syncData.blocks) > 0
                                /\ genesisBlock # NoGenesis
                                /\ CandidateIntegral(f) /\ f.headOK,
                     blocks |-> Len(syncData.blocks),
                     candidate |-> CandidateKind(syncData.genesisBlock),
                     replaced |-> o.replaced])
      /\ staged' = IF o.replaced THEN o.staged ELSE staged
      /\ UNCHANGED <<genesisBlock, masterKeyPair, hsResponse, hsResult>>
      /\ UNCHANGED others

\* the genesis records a sync response can carry to a node without
\* genesis; a node that has one never reads the field
SyncGeneses ==
  IF genesisBlock # NoGenesis THEN {NoGenesis}
  ELSE {NoGenesis} \cup { g \in OfferedGeneses : g.networkHandshakeToken = Null }

\* the response of a peer: a start index, offered blocks, the hash and
\* signature it sends for the spliced sequence, and a genesis
SyncResponse(i, b, k, g) ==
  LET top == OfferedTop(LocalChainId, slice(chain, i) \o b, k)
  IN  [type |-> "SYNC_RESPONSE", fromIndex |-> i, blocks |-> b,
       chainHash |-> top[1], chainSignature |-> top[2], genesisBlock |-> g]

\* a message of another type that reaches applySyncData
NotASyncResponse ==
  [type |-> "HANDSHAKE_RESPONSE", fromIndex |-> 0, blocks |-> <<>>,
   chainHash |-> NullHash, chainSignature |-> NoSig, genesisBlock |-> NoGenesis]

NextSync ==
  \/ setMasterKeyPair(MasterKey)
  \/ \E g \in OfferedGeneses : initializeChain(g)
  \/ \E b \in AddInputs : addBlock(b)
  \/ \E i \in 0..Len(chain) :
       \E b \in OfferedBlocks(tailHash(slice(chain, i)), MaxLen - i) :
         \E k \in TopKinds, g \in SyncGeneses :
           applySyncData(SyncResponse(i, b, k, g))
  \/ applySyncData(NotASyncResponse)
  \/ \E i \in 0..Len(chain) :
       \E b \in OfferedBlocks(tailHash(slice(chain, i)), MaxLen - i) :
         \E k \in TopKinds :
           applySyncDataReplace(SyncResponse(i, b, k, NoGenesis))
  \/ applySyncDataReplace(NotASyncResponse)

SpecSync == Init /\ [][NextSync]_vars

(***************************************************************************)
(* peer-handshake.mjs                                                      *)
(***************************************************************************)
\* { valid: false, reason }
Rejected(reason) == [NoResult EXCEPT !.reason = reason]

\* { valid: true, needsSync, peerChainLength, peerLastUpdated }
Accepted(needsSync, response) ==
  [valid |-> TRUE, reason |-> Null,
   needsSync |-> IF needsSync THEN "true" ELSE "false",
   peerChainLength |-> response.chainLength,
   peerLastUpdated |-> response.lastUpdated]

\* the response carries a chain hash, a chain signature and a master key
presentsChainProof(response) ==
  /\ response.chainHash # NullHash
  /\ response.chainSignature # NoSig
  /\ response.masterPubKey # Null

\* validateHandshakeResponse that compares chain ids even when the peer
\* sent none
validateHandshakeResponse_strictId(g, c, response) ==
  IF response = NoResponse THEN Rejected("No response received")
  ELSE IF response.type # "HANDSHAKE_RESPONSE" THEN Rejected("Invalid response type")
  ELSE IF g # NoGenesis /\ response.chainId # g.chainId
  THEN Rejected("Different chain ID")
  ELSE IF /\ presentsChainProof(response)
          /\ ~verifyChainAuthenticity(response.chainHash, response.chainSignature,
                                      response.masterPubKey)
  THEN Rejected("Invalid chain signature")
  ELSE Accepted(TRUE, response)

\* validateHandshakeResponse as the node runs it (the first definition in
\* the file): needsSync is (response.chainLength > metadata.length || true)
validateHandshakeResponse(g, c, response) ==
  IF response = NoResponse THEN Rejected("No response received")
  ELSE IF response.type # "HANDSHAKE_RESPONSE" THEN Rejected("Invalid response type")
  ELSE IF response.chainId # Null /\ g # NoGenesis /\ response.chainId # g.chainId
  THEN Rejected("Different chain ID")
  ELSE LET needsSync == response.chainLength > Len(c) \/ TRUE
       IN  IF /\ presentsChainProof(response)
              /\ ~verifyChainAuthenticity(response.chainHash, response.chainSignature,
                                          response.masterPubKey)
           THEN Rejected("Invalid chain signature")
           ELSE Accepted(needsSync, response)

\* validateHandshakeResponse of the documented revision (the second
\* definition in the file): needsSync compares lengths, then lastUpdated
validateHandshakeResponseDocumented(g, c, response) ==
  IF response = NoResponse THEN Rejected("No response received")
  ELSE IF response.type # "HANDSHAKE_RESPONSE" THEN Rejected("Invalid response type")
  ELSE IF response.chainId # Null /\ g # NoGenesis /\ response.chainId # g.chainId
  THEN Rejected("Different chain ID")
  ELSE LET needsSync ==
             \/ response.chainLength > Len(c)
             \/ /\ response.chainLength = Len(c)
                /\ response.lastUpdated > lastUpdatedOf(c)
       IN  IF /\ presentsChainProof(response)
              /\ ~verifyChainAuthenticity(response.chainHash, response.chainSignature,
                                          response.masterPubKey)
           THEN Rejected("Invalid chain signature")
           ELSE Accepted(needsSync, response)

\* the chain proofs a response can carry: none, the master key's, one whose
\* signature is by another key, one without signature, one signed by the
\* key the response itself names
ProofKinds == {"none", "master", "forged", "unsigned", "selfSigned"}

PeerHash == peerChainHash(LocalChainId, <<OrphanBlock>>)

HandshakeResponseOf(type, chainId, chainLength, lastUpdated, proof) ==
  [type |-> type, chainId |-> chainId, chainLength |-> chainLength,
   lastUpdated |-> lastUpdated,
   chainHash |-> IF proof = "none" THEN NullHash ELSE PeerHash,
   chainSignature |->
     CASE proof = "master" -> signEd25519(PeerHash, MasterKey)
       [] proof = "forged" -> signEd25519(PeerHash, Intruder)
       [] proof = "selfSigned" -> signEd25519(PeerHash, Intruder)
       [] OTHER -> NoSig,
   masterPubKey |->
     CASE proof = "none" -> Null
       [] proof = "selfSigned" -> Intruder
       [] OTHER -> MasterKey]

HandshakeResponses ==
  {NoResponse} \cup
  { HandshakeResponseOf(type, chainId, chainLength, lastUpdated, proof) :
      type \in {"HANDSHAKE_RESPONSE", "HANDSHAKE"},
      chainId \in {Null} \cup ChainIds,
      chainLength \in 0..(MaxLen + 1),
      lastUpdated \in {NullTime} \cup Times,
      proof \in ProofKinds }

\* a node before or after initializeChain and some addBlock calls, about to
\* validate a response
InitHandshake ==
  /\ genesisBlock \in {NoGenesis} \cup Geneses
  /\ masterKeyPair = setGenesisBlockKey(genesisBlock, Null)
  /\ chain \in LocalChains
  /\ chainHash = updateChainHash(genesisBlock, masterKeyPair, chain, NoSig)[1]
  /\ chainSignature = updateChainHash(genesisBlock, masterKeyPair, chain, NoSig)[2]
  /\ ret = Ret("none", "none", NoFacts, NoSync)
  /\ hsResponse \in HandshakeResponses
  /\ hsResult = NoResult
  /\ staged = FALSE
  /\ InitOthers

\* performHandshake handing the response to validateHandshakeResponse
validate ==
  /\ ret.op = "none"
  /\ hsResult' = validateHandshakeResponse(genesisBlock, chain, hsResponse)
  /\ ret' = Ret("validateHandshakeResponse", "none", NoFacts, NoSync)
  /\ UNCHANGED <<ledger, hsResponse, staged>>
  /\ UNCHANGED others

validateDocumented ==
  /\ ret.op = "none"
  /\ hsResult' = validateHandshakeResponseDocumented(genesisBlock, chain, hsResponse)
  /\ ret' = Ret("validateHandshakeResponseDocumented", "none", NoFacts, NoSync)
  /\ UNCHANGED <<ledger, hsResponse, staged>>
  /\ UNCHANGED others

NextHandshake == validate \/ validateDocumented

SpecHandshake == InitHandshake /\ [][NextHandshake]_vars

(***************************************************************************)
(* peer-gossip.mjs                                                         *)
(***************************************************************************)
\* the peer is ahead of the local chain described by metadata
gossipPeerAhead(message, metadata) ==
  \/ message.chainLength > metadata.length
  \/ /\ message.chainLength = metadata.length
     /\ message.lastUpdated > metadata.lastUpdated

\* handleGossip that asks for a sync on an equal lastUpdated too
handleGossipResult_notStrict(message, peerAddress, metadata) ==
  IF message.type # "GOSSIP"
  THEN [NoGossipResult EXCEPT !.action = "ignore", !.reason = "Invalid message type"]
  ELSE IF \/ message.chainLength > metadata.length
          \/ /\ message.chainLength = metadata.length
             /\ message.lastUpdated >= metadata.lastUpdated
  THEN [action |-> "sync", reason |-> Null, peerAddress |-> peerAddress,
        chainLength |-> message.chainLength, lastUpdated |-> message.lastUpdated]
  ELSE [NoGossipResult EXCEPT !.action = "ignore", !.reason = "Chain up to date"]

\* what handleGossip(message, peerAddress) returns
handleGossipResult(message, peerAddress, metadata) ==
  IF message.type # "GOSSIP"
  THEN [NoGossipResult EXCEPT !.action = "ignore", !.reason = "Invalid message type"]
  ELSE IF gossipPeerAhead(message, metadata)
  THEN [action |-> "sync", reason |-> Null, peerAddress |-> peerAddress,
        chainLength |-> message.chainLength, lastUpdated |-> message.lastUpdated]
  ELSE [NoGossipResult EXCEPT !.action = "ignore", !.reason = "Chain up to date"]

\* peer-gossip.mjs handleGossip; now is getCurrentTimestamp()
handleGossip(message, peerAddress, now) ==
  /\ connectedPeers' =
       IF message.type # "GOSSIP" THEN connectedPeers
       ELSE [connectedPeers EXCEPT ![peerAddress] =
               [chainLength |-> message.chainLength,
                chainHash |-> message.chainHash,
                lastUpdated |-> message.lastUpdated,
                lastSeen |-> now]]
  /\ gossipCall' = [message |-> message, peerAddress |-> peerAddress]
  /\ gossipResult' = handleGossipResult(message, peerAddress, getChainMetadata)
  /\ ret' = Ret("handleGossip", "none", NoFacts, NoSync)
  /\ UNCHANGED <<ledger, hsResponse, hsResult, ledgerCall, staged, procVars, ioVars>>

\* the messages that reach handleGossip: gossip of a peer whose chain is
\* shorter, as long or longer, older, as old or newer; and other messages
GossipMessages ==
  [type : {"GOSSIP"},
   chainLength : 0..(MaxLen + 1),
   chainHash : {PeerHash},
   lastUpdated : {NullTime} \cup Times]
    \cup {[type |-> "HANDSHAKE", chainLength |-> MaxLen + 1,
            chainHash |-> PeerHash, lastUpdated |-> MaxTime]}

\* a node that has its genesis and some blocks
InitGossipNode ==
  /\ genesisBlock = createGenesisBlock(LocalChainId, MasterKey, Null)
  /\ masterKeyPair = Null
  /\ chain \in LocalChains
  /\ chainHash = updateChainHash(genesisBlock, masterKeyPair, chain, NoSig)[1]
  /\ chainSignature = updateChainHash(genesisBlock, masterKeyPair, chain, NoSig)[2]
  /\ ret = Ret("none", "none", NoFacts, NoSync)
  /\ hsResponse = NoResponse
  /\ hsResult = NoResult
  /\ staged = FALSE
  /\ InitOthers

NextGossip ==
  \E message \in GossipMessages, peerAddress \in Peers, now \in Times :
    handleGossip(message, peerAddress, now)

SpecGossip == InitGossipNode /\ [][NextGossip]_vars

(***************************************************************************)
(* index.mjs bootstrap, network.mjs bootstrapPeerDiscovery, storage.mjs    *)
(***************************************************************************)
\* storage.mjs concealMasterKey: the key pair encrypted under a key derived
\* from the chain id
concealMasterKey(keyPair, chainId) ==
  CASE keyPair = MasterKey /\ chainId = "c1" -> "aes(M,c1)"
    [] keyPair = MasterKey /\ chainId = "c2" -> "aes(M,c2)"
    [] OTHER -> "aes(other)"

\* storage.mjs revealMasterKey: decrypts with the key derived from chainId;
\* "threw" when the authentication tag does not match
revealMasterKey(concealedToken, chainId) ==
  IF \E k \in {MasterKey} : concealMasterKey(k, chainId) = concealedToken
  THEN CHOOSE k \in {MasterKey} : concealMasterKey(k, chainId) = concealedToken
  ELSE "threw"

\* the genesis.json that storage.mjs saveGenesis writes
saveGenesis(g, keyPair) ==
  IF keyPair # Null
  THEN [g EXCEPT !.networkHandshakeToken = concealMasterKey(keyPair, g.chainId)]
  ELSE g

\* storage.mjs loadMasterKey
loadMasterKey(disk) ==
  IF disk.genesis = NoGenesis \/ disk.genesis.networkHandshakeToken = Null
  THEN Null
  ELSE revealMasterKey(disk.genesis.networkHandshakeToken, disk.genesis.chainId)

\* the chain.json that storage.mjs saveSnapshot writes
saveSnapshot(c, h, s) ==
  [present |-> TRUE, chain |-> c, chainHash |-> h, chainSignature |-> s]

\* storage.mjs loadAll
loadAll(disk) ==
  [genesis |-> disk.genesis, masterKey |-> loadMasterKey(disk),
   snapshot |-> disk.snapshot]

\* a remote node of the network c1 that holds the sequence c
PeerNode(c) ==
  LET g == createGenesisBlock(LocalChainId, MasterKey, MasterKey)
      u == updateChainHash(g, MasterKey, c, NoSig)
  IN  [reachable |-> TRUE, genesisBlock |-> g, chain |-> c,
       chainHash |-> u[1], chainSignature |-> u[2]]

PeerNodes == {Unreachable} \cup { PeerNode(c) : c \in LocalChains }

\* peer-handshake.mjs handleHandshake run by the remote node
handleHandshake(node) ==
  [type |-> "HANDSHAKE_RESPONSE", chainId |-> node.genesisBlock.chainId,
   chainLength |-> Len(node.chain), lastUpdated |-> lastUpdatedOf(node.chain),
   chainHash |-> node.chainHash, chainSignature |-> node.chainSignature,
   masterPubKey |-> node.genesisBlock.masterPubKey]

\* peer-handshake.mjs performHandshake against the remote node (the
\* revision bootstrapPeerDiscovery calls, with the p2pPort argument)
performHandshake(g, c, node) ==
  LET validation == validateHandshakeResponseDocumented(g, c, handleHandshake(node))
  IN  IF node.reachable /\ validation.valid
      THEN [success |-> TRUE, peerChainLength |-> validation.peerChainLength,
            peerLastUpdated |-> validation.peerLastUpdated]
      ELSE [success |-> FALSE, peerChainLength |-> 0, peerLastUpdated |-> NullTime]

\* peer-sync.mjs handleSyncRequest run by the remote node: the blocks from
\* fromIndex on with the chain hash and signature; the response has no
\* genesis field
handleSyncRequest(node, fromIndex) ==
  [type |-> "SYNC_RESPONSE", fromIndex |-> fromIndex,
   blocks |-> SubSeq(node.chain, fromIndex + 1, Len(node.chain)),
   chainHash |-> node.chainHash, chainSignature |-> node.chainSignature,
   totalLength |-> Len(node.chain), genesisBlock |-> NoGenesis]

\* the order in which discovery lists the peers
PeerOrder == <<"p1", "p2">>

RECURSIVE reduceBest(_, _, _)
\* connectedPeers.reduce of bootstrapPeerDiscovery from position i on
reduceBest(connected, best, i) ==
  IF i > Len(connected) THEN best
  ELSE LET current == connected[i]
           next == IF best = NoPeer \/ current.chainLength > best.chainLength
                   THEN current
                   ELSE IF /\ current.chainLength = best.chainLength
                           /\ current.lastUpdated > best.lastUpdated
                   THEN current
                   ELSE best
       IN  reduceBest(connected, next, i + 1)

\* what bootstrapPeerDiscovery returns when the remote nodes are net
bootstrapPeerDiscoveryResult(g, c, net) ==
  LET result(i) == performHandshake(g, c, net[PeerOrder[i]])
      info(i) == [address |-> PeerOrder[i],
                  chainLength |-> result(i).peerChainLength,
                  lastUpdated |-> result(i).peerLastUpdated]
      connected == SelectSeq([i \in 1..Len(PeerOrder) |-> info(i)],
                             LAMBDA p : performHandshake(g, c, net[p.address]).success)
  IN  IF Len(connected) = 0 THEN [hasPeers |-> FALSE, bestPeer |-> NoPeer]
      ELSE [hasPeers |-> TRUE, bestPeer |-> reduceBest(connected, NoPeer, 1)]

\* step 6 of a bootstrap that takes the new-genesis branch whenever nothing
\* usable is stored, whatever the peers answered
bootstrapBranch_ignorePeers(data, hasPeers) ==
  IF data.genesis # NoGenesis /\ data.masterKey # Null THEN "local"
  ELSE "create"

\* the branch step 6 of bootstrap takes
bootstrapBranch(data, hasPeers) ==
  IF data.genesis # NoGenesis /\ data.masterKey # Null THEN "local"
  ELSE IF hasPeers THEN "network"
  ELSE "create"

\* what a block object yields where a genesis record is read: it has no
\* chainId, masterPubKey, chainSignature or networkHandshakeToken
blockAsGenesis(block) ==
  [chainId |-> Null, createdAt |-> 0, masterPubKey |-> Null,
   chainSignature |-> NoSig, networkHandshakeToken |-> Null]

\* the process after its catch block: shutdown saves a snapshot of what is
\* in memory, then the process exits
exitWith(branch, reason) ==
  boot' = [boot EXCEPT !.pc = "exited", !.branch = branch, !.error = reason,
                       !.disk.snapshot = saveSnapshot(chain', chainHash', chainSignature')]

\* a process starts: steps 1 to 4, nothing of the chain is in memory
startProcess ==
  /\ boot.pc \in {"idle", "exited"}
  /\ boot.runs < MaxRuns
  /\ genesisBlock' = NoGenesis
  /\ masterKeyPair' = Null
  /\ chain' = <<>>
  /\ chainHash' = NullHash
  /\ chainSignature' = NoSig
  /\ boot' = [boot EXCEPT !.pc = "discover", !.hasPeers = FALSE,
                          !.bestPeer = NoPeer, !.branch = Null,
                          !.created = FALSE,
                          !.hadLocal = boot.disk.genesis # NoGenesis,
                          !.responded = FALSE, !.error = Null,
                          !.runs = boot.runs + 1]
  /\ UNCHANGED <<ret, hsResponse, hsResult, staged, gossipVars, ledgerCall, syncRun, blockOp, ioVars>>

\* step 5: bootstrapPeerDiscovery against the remote nodes net
bootstrapDiscover(net) ==
  /\ boot.pc = "discover"
  /\ LET r == bootstrapPeerDiscoveryResult(genesisBlock, chain, net)
     IN  boot' = [boot EXCEPT !.pc = "load", !.net = net,
                              !.hasPeers = r.hasPeers, !.bestPeer = r.bestPeer,
                              !.responded = \E p \in Peers :
                                performHandshake(genesisBlock, chain, net[p]).success]
  /\ UNCHANGED <<ledger, ret, hsResponse, hsResult, staged, gossipVars, ledgerCall, syncRun, blockOp, ioVars>>

\* step 6, first branch: the stored genesis, master key and snapshot are
\* installed, then the best peer is asked for the blocks it has beyond
bootstrapLocal ==
  /\ boot.pc = "load"
  /\ LET data == loadAll(boot.disk)
     IN  /\ bootstrapBranch(data, boot.hasPeers) = "local"
         /\ LET g == data.genesis
                k == data.masterKey
                u == updateChainHash(g, k, <<>>, NoSig)
                o == IF data.snapshot.present
                     THEN replaceChainOutcome(g, <<>>, u[1], u[2], data.snapshot.chain,
                                              data.snapshot.chainHash,
                                              data.snapshot.chainSignature)
                     ELSE [ret |-> "none", chain |-> <<>>, chainHash |-> u[1],
                           chainSignature |-> u[2], staged |-> FALSE]
                sy == IF boot.hasPeers /\ boot.bestPeer.chainLength > Len(o.chain)
                      THEN applySyncDataOutcome(g, k, o.chain, o.chainHash,
                             o.chainSignature,
                             handleSyncRequest(boot.net[boot.bestPeer.address],
                                               Len(o.chain)))
                      ELSE [ret |-> "none", genesisBlock |-> g, masterKeyPair |-> k,
                            chain |-> o.chain, chainHash |-> o.chainHash,
                            chainSignature |-> o.chainSignature,
                            replaced |-> FALSE, staged |-> FALSE]
            IN  IF ~verifyGenesisBlock(g)
                THEN /\ masterKeyPair' = k
                     /\ genesisBlock' = g
                     /\ UNCHANGED <<chain, chainHash, chainSignature>>
                     /\ exitWith("local", "Invalid genesis block")
                ELSE /\ masterKeyPair' = sy.masterKeyPair
                     /\ genesisBlock' = sy.genesisBlock
                     /\ chain' = sy.chain
                     /\ chainHash' = sy.chainHash
                     /\ chainSignature' = sy.chainSignature
                     /\ boot' = [boot EXCEPT !.pc = "verify", !.branch = "local"]
  /\ UNCHANGED <<ret, hsResponse, hsResult, staged, gossipVars, ledgerCall, syncRun, blockOp, ioVars>>

\* step 6, second branch: nothing usable is stored and a peer answered;
\* the first block of the best peer's answer is taken for the genesis
bootstrapNetwork ==
  /\ boot.pc = "load"
  /\ LET data == loadAll(boot.disk)
         syncData == handleSyncRequest(boot.net[boot.bestPeer.address], 0)
     IN  /\ bootstrapBranch(data, boot.hasPeers) = "network"
         /\ IF Len(syncData.blocks) = 0
            THEN /\ UNCHANGED ledger
                 /\ exitWith("network", "No valid chain data received from peer")
            ELSE LET g == blockAsGenesis(syncData.blocks[1])
                     k == setGenesisBlockKey(g, masterKeyPair)
                     u == updateChainHash(g, k, <<>>, chainSignature)
                     sy == applySyncDataOutcome(g, k, <<>>, u[1], u[2], syncData)
                 IN  IF ~verifyGenesisBlock(g)
                     THEN /\ UNCHANGED ledger
                          /\ exitWith("network", "Invalid genesis block received from peer")
                     ELSE /\ genesisBlock' = sy.genesisBlock
                          /\ masterKeyPair' = sy.masterKeyPair
                          /\ chain' = sy.chain
                          /\ chainHash' = sy.chainHash
                          /\ chainSignature' = sy.chainSignature
                          /\ IF sy.ret = "true"
                             THEN boot' = [boot EXCEPT
                                    !.pc = "verify", !.branch = "network",
                                    !.disk = [genesis |-> saveGenesis(g, sy.masterKeyPair),
                                              snapshot |-> saveSnapshot(sy.chain,
                                                 sy.chainHash, sy.chainSignature)]]
                             ELSE exitWith("network", "Failed to apply synced chain data")
  /\ UNCHANGED <<ret, hsResponse, hsResult, staged, gossipVars, ledgerCall, syncRun, blockOp, ioVars>>

\* step 6, third branch: nothing usable is stored and no peer answered;
\* master_key.json is read and a genesis with the chain id chainId is made
bootstrapCreate(chainId) ==
  /\ boot.pc = "load"
  /\ bootstrapBranch(loadAll(boot.disk), boot.hasPeers) = "create"
  /\ IF ~boot.keyFile
     THEN /\ UNCHANGED ledger
          /\ exitWith("create", "master_key.json file is required for first peer bootstrap")
     ELSE LET g == createGenesisBlock(chainId, MasterKey, MasterKey)
              u == updateChainHash(g, MasterKey, <<>>, chainSignature)
          IN  /\ masterKeyPair' = MasterKey
              /\ genesisBlock' = g
              /\ chain' = <<>>
              /\ chainHash' = u[1]
              /\ chainSignature' = u[2]
              /\ boot' = [boot EXCEPT
                   !.pc = "verify", !.branch = "create", !.created = TRUE,
                   !.disk = [genesis |-> saveGenesis(g, MasterKey),
                             snapshot |-> saveSnapshot(<<>>, u[1], u[2])]]
  /\ UNCHANGED <<ret, hsResponse, hsResult, staged, gossipVars, ledgerCall, syncRun, blockOp, ioVars>>

\* step 7: verifyChainIntegrity, or the process gives up
bootstrapVerify ==
  /\ boot.pc = "verify"
  /\ UNCHANGED ledger
  /\ IF verifyChainIntegrity
     THEN boot' = [boot EXCEPT !.pc = "running"]
     ELSE exitWith(boot.branch, "Chain integrity check failed")
  /\ UNCHANGED <<ret, hsResponse, hsResult, staged, gossipVars, ledgerCall, syncRun, blockOp, ioVars>>

\* handleRegister on the running node: addBlock, then saveSnapshot
registerBlock(newBlock) ==
  /\ boot.pc = "running"
  /\ Len(chain) < MaxLen
  /\ IF addBlockAccepts(chain, newBlock)
     THEN LET c == Append(chain, newBlock)
              u == updateChainHash(genesisBlock, masterKeyPair, c, chainSignature)
          IN  /\ chain' = c
              /\ chainHash' = u[1]
              /\ chainSignature' = u[2]
              /\ boot' = [boot EXCEPT !.disk.snapshot = saveSnapshot(c, u[1], u[2])]
     ELSE UNCHANGED <<chain, chainHash, chainSignature, boot>>
  /\ UNCHANGED <<genesisBlock, masterKeyPair, ret, hsResponse, hsResult, staged,
                 gossipVars, ledgerCall, syncRun, blockOp, ioVars>>

\* SIGINT or SIGTERM: shutdown saves the snapshot and the process exits
shutdown ==
  /\ boot.pc = "running"
  /\ UNCHANGED ledger
  /\ exitWith(boot.branch, Null)
  /\ UNCHANGED <<ret, hsResponse, hsResult, staged, gossipVars, ledgerCall, syncRun, blockOp, ioVars>>

\* a machine with an empty data directory, with or without master_key.json
InitBoot ==
  /\ genesisBlock = NoGenesis
  /\ masterKeyPair = Null
  /\ chain = <<>>
  /\ chainHash = NullHash
  /\ chainSignature = NoSig
  /\ ret = Ret("none", "none", NoFacts, NoSync)
  /\ hsResponse = NoResponse
  /\ hsResult = NoResult
  /\ staged = FALSE
  /\ InitGossip
  /\ ledgerCall = NoLedgerCall
  /\ syncRun = NoSyncRun
  /\ blockOp = NoBlockOp
  /\ InitIo
  /\ boot \in { [NoBoot EXCEPT !.keyFile = f] : f \in BOOLEAN }

NextBoot ==
  \/ startProcess
  \/ \E net \in [Peers -> PeerNodes] : bootstrapDiscover(net)
  \/ bootstrapLocal
  \/ bootstrapNetwork
  \/ \E chainId \in ChainIds : bootstrapCreate(chainId)
  \/ bootstrapVerify
  \/ \E b \in AddInputs : registerBlock(b)
  \/ shutdown

SpecBoot == InitBoot /\ [][NextBoot]_vars

(***************************************************************************)
(* peer-sync.mjs syncWithPeer and syncWithBestPeer                         *)
(***************************************************************************)
SyncPeerOrder == <<"p1", "p2", "p3", "p4", "p5">>

\* a remote node holding n blocks stamped t
SyncNode(n, t, reachable) ==
  [PeerNode(BuildChain(NullHash, [i \in 1..n |-> t], NoDefect, 1))
     EXCEPT !.reachable = reachable]

SyncNodes ==
  { SyncNode(n, t, r) : n \in 1..MaxLen, t \in Times, r \in BOOLEAN }

\* the entry of the peer list for the i-th address: what the node at that
\* address announced in its handshake
peerInfo(net, i) ==
  [address |-> SyncPeerOrder[i], chainLength |-> Len(net[i].chain),
   lastUpdated |-> lastUpdatedOf(net[i].chain)]

\* the comparator handed to sort: negative when a goes before b
comparePeers(a, b) ==
  IF b.chainLength # a.chainLength THEN b.chainLength - a.chainLength
  ELSE b.lastUpdated - a.lastUpdated

RECURSIVE insertPeer(_, _)
\* sorted with p put behind every entry it does not precede
insertPeer(sorted, p) ==
  IF Len(sorted) = 0 THEN <<p>>
  ELSE IF comparePeers(sorted[Len(sorted)], p) <= 0 THEN Append(sorted, p)
  ELSE Append(insertPeer(SubSeq(sorted, 1, Len(sorted) - 1), p), sorted[Len(sorted)])

RECURSIVE sortPeers(_)
\* [...peers].sort(comparator): Array.prototype.sort is stable
sortPeers(peers) ==
  IF Len(peers) = 0 THEN <<>>
  ELSE insertPeer(sortPeers(SubSeq(peers, 1, Len(peers) - 1)), peers[Len(peers)])

\* the ledger as a record
ledgerRecord(g, k, c, h, s) ==
  [genesisBlock |-> g, masterKeyPair |-> k, chain |-> c, chainHash |-> h,
   chainSignature |-> s]

\* peer-sync.mjs syncWithPeer: requestSync rejects when the node does not
\* answer, and the rejection is caught
syncWithPeerOutcome(l, node, fromIndex) ==
  IF ~node.reachable THEN [ret |-> "false", ledger |-> l]
  ELSE LET o == applySyncDataOutcome(l.genesisBlock, l.masterKeyPair, l.chain,
                  l.chainHash, l.chainSignature, handleSyncRequest(node, fromIndex))
       IN  [ret |-> IF o.ret = "true" THEN "true" ELSE "false",
            ledger |-> ledgerRecord(o.genesisBlock, o.masterKeyPair, o.chain,
                                    o.chainHash, o.chainSignature)]

\* syncWithPeer of the revision whose applySyncData goes straight to
\* replaceChain
syncWithPeerReplaceOutcome(l, node, fromIndex) ==
  IF ~node.reachable THEN [ret |-> "false", ledger |-> l]
  ELSE LET o == applySyncDataReplaceOutcome(l.genesisBlock, l.chain, l.chainHash,
                  l.chainSignature, handleSyncRequest(node, fromIndex))
       IN  [ret |-> IF o.ret = "true" THEN "true" ELSE "false",
            ledger |-> ledgerRecord(l.genesisBlock, l.masterKeyPair, o.chain,
                                    o.chainHash, o.chainSignature)]

nodeAt(net, address) ==
  net[CHOOSE i \in 1..Len(net) : SyncPeerOrder[i] = address]

\* peer-sync.mjs syncWithBestPeer: one attempt, with the first of the
\* sorted peers
syncWithBestPeerOutcome(l, peers, net) ==
  IF Len(peers) = 0
  THEN [ret |-> "false", ledger |-> l, attempts |-> <<>>, outcomes |-> <<>>]
  ELSE LET sortedPeers == sortPeers(peers)
           bestPeer == sortedPeers[1]
           currentLength == Len(l.chain)
           fromIndex == IF bestPeer.chainLength > currentLength
                        THEN currentLength ELSE 0
           o == syncWithPeerOutcome(l, nodeAt(net, bestPeer.address), fromIndex)
       IN  [ret |-> o.ret, ledger |-> o.ledger, attempts |-> <<bestPeer.address>>,
            outcomes |-> <<o.ret>>]

RECURSIVE tryAlternatives(_, _, _, _, _, _, _)
\* the loop over sortedPeers[i], i < min(length, 3), of the revision with
\* retries (i counts from 1 here, so the loop runs while i <= min(length, 3))
tryAlternatives(l, sortedPeers, net, fromIndex, i, attempts, outcomes) ==
  IF i > (IF Len(sortedPeers) < 3 THEN Len(sortedPeers) ELSE 3)
  THEN [ret |-> "false", ledger |-> l, attempts |-> attempts, outcomes |-> outcomes]
  ELSE LET altPeer == sortedPeers[i]
           o == syncWithPeerReplaceOutcome(l, nodeAt(net, altPeer.address), fromIndex)
       IN  IF o.ret = "true"
           THEN [ret |-> "true", ledger |-> o.ledger,
                 attempts |-> Append(attempts, altPeer.address),
                 outcomes |-> Append(outcomes, "true")]
           ELSE tryAlternatives(o.ledger, sortedPeers, net, fromIndex, i + 1,
                                Append(attempts, altPeer.address),
                                Append(outcomes, "false"))

\* syncWithBestPeer of the revision with retries
syncWithBestPeerRetryOutcome(l, peers, net) ==
  IF Len(peers) = 0
  THEN [ret |-> "false", ledger |-> l, attempts |-> <<>>, outcomes |-> <<>>]
  ELSE LET sortedPeers == sortPeers(peers)
           bestPeer == sortedPeers[1]
           currentLength == Len(l.chain)
           fromIndex == IF bestPeer.chainLength > currentLength
                        THEN currentLength ELSE 0
       IN  tryAlternatives(l, sortedPeers, net, fromIndex, 1, <<>>, <<>>)

\* the effect of the syncWithBestPeer call with outcome o on the node
bestPeerCall(o, peers, revision) ==
  /\ syncRun.calls = 0
  /\ genesisBlock' = o.ledger.genesisBlock
  /\ masterKeyPair' = o.ledger.masterKeyPair
  /\ chain' = o.ledger.chain
  /\ chainHash' = o.ledger.chainHash
  /\ chainSignature' = o.ledger.chainSignature
  /\ syncRun' = [peers |-> peers, attempts |-> o.attempts, outcomes |-> o.outcomes,
                 ret |-> o.ret, revision |-> revision, calls |-> syncRun.calls + 1]
  /\ UNCHANGED <<ret, hsResponse, hsResult, staged, gossipVars, ledgerCall, boot, blockOp, ioVars>>

syncWithBestPeer(net) ==
  LET peers == [i \in 1..Len(net) |-> peerInfo(net, i)]
  IN  bestPeerCall(syncWithBestPeerOutcome(
                     ledgerRecord(genesisBlock, masterKeyPair, chain, chainHash,
                                  chainSignature), peers, net),
                   peers, "peer-sync.mjs")

syncWithBestPeerRetry(net) ==
  LET peers == [i \in 1..Len(net) |-> peerInfo(net, i)]
  IN  bestPeerCall(syncWithBestPeerRetryOutcome(
                     ledgerRecord(genesisBlock, masterKeyPair, chain, chainHash,
                                  chainSignature), peers, net),
                   peers, "retries")

\* the remote nodes behind a peer list of up to MaxPeers entries
SyncNets == UNION { [1..n -> SyncNodes] : n \in 0..MaxPeers }

\* a node of the network c1 that holds no block or one block
InitBestPeer ==
  /\ genesisBlock = createGenesisBlock(LocalChainId, MasterKey, MasterKey)
  /\ masterKeyPair = MasterKey
  /\ chain \in {<<>>, SyncNode(1, 1, TRUE).chain}
  /\ chainHash = updateChainHash(genesisBlock, masterKeyPair, chain, NoSig)[1]
  /\ chainSignature = updateChainHash(genesisBlock, masterKeyPair, chain, NoSig)[2]
  /\ ret = Ret("none", "none", NoFacts, NoSync)
  /\ hsResponse = NoResponse
  /\ hsResult = NoResult
  /\ staged = FALSE
  /\ InitOthers

NextBestPeer ==
  \/ \E net \in SyncNets : syncWithBestPeer(net)
  \/ \E net \in SyncNets : syncWithBestPeerRetry(net)

SpecBestPeer == InitBestPeer /\ [][NextBestPeer]_vars

(***************************************************************************)
(* block.mjs operations, token.mjs, verification.mjs and the handlers of   *)
(* index.mjs that apply them to a block of the chain                       *)
(***************************************************************************)
Stages == {"genesis", "guardian", "self", "expired"}

\* the key pair a rotation hands the block to
NewOwner == "K2"

TokenIds == {"t1", "t2"}

\* crypto.encryptFields draws a fresh IV: the ciphertext differs from every
\* earlier one of the block
encryptFields(encryptedData) ==
  CASE encryptedData = "enc" -> "enc.1"
    [] encryptedData = "enc.1" -> "enc.2"
    [] encryptedData = "enc.2" -> "enc.3"
    [] encryptedData = "enc.3" -> "enc.4"
    [] OTHER -> "enc.5"

\* hash and signature renewed as updateBlock, rotateBlockKey and
\* markAsDeceased renew them
rehashAndSign(block, privateKey) ==
  LET b == [block EXCEPT !.hash = calculateBlockHash(block)]
  IN  [b EXCEPT !.signature = signEd25519(blockData(b), privateKey)]

\* block.mjs updateBlock
updateBlock(block, now, ownerPrivateKey) ==
  rehashAndSign([block EXCEPT !.encryptedData = encryptFields(block.encryptedData),
                              !.updatedAt = now],
                ownerPrivateKey)

\* rotateBlockKey with its exhaustion test off by one
rotateBlockKey_belowZero(block, newOwnerPublicKey, newOwnerPrivateKey, newStage, now) ==
  IF block.rotationsLeft < 0 THEN [ret |-> "threw", block |-> block]
  ELSE [ret |-> "none",
        block |-> rehashAndSign(
          [block EXCEPT !.encryptedData = encryptFields(block.encryptedData),
                        !.ownerPubKey = newOwnerPublicKey,
                        !.lifecycleStage = newStage,
                        !.rotationsLeft = block.rotationsLeft - 1,
                        !.updatedAt = now],
          newOwnerPrivateKey)]

\* block.mjs rotateBlockKey; it throws, before any write, when no rotation
\* is left
rotateBlockKey(block, newOwnerPublicKey, newOwnerPrivateKey, newStage, now) ==
  IF block.rotationsLeft <= 0 THEN [ret |-> "threw", block |-> block]
  ELSE [ret |-> "none",
        block |-> rehashAndSign(
          [block EXCEPT !.encryptedData = encryptFields(block.encryptedData),
                        !.ownerPubKey = newOwnerPublicKey,
                        !.lifecycleStage = newStage,
                        !.rotationsLeft = block.rotationsLeft - 1,
                        !.updatedAt = now],
          newOwnerPrivateKey)]

\* block.mjs markAsDeceased
markAsDeceased(block, now, ownerPrivateKey) ==
  rehashAndSign([block EXCEPT !.deathDate = now, !.updatedAt = now], ownerPrivateKey)

\* block.mjs updateLifecycleStage: two fields are written, nothing else
updateLifecycleStage(block, newStage, now) ==
  [block EXCEPT !.lifecycleStage = newStage, !.updatedAt = now]

\* the fields of a record a token can name, and a condition list
Fields == {"dob", "name"}
Dob == <<"dob">>

\* the string a token signature covers in the first revision of token.mjs:
\* id, permissions, remainingUses (issuedAt is left out of the model)
tokenData(token) == <<"tokenData", token.id, token.permissions, token.remainingUses>>

\* token.mjs issueToken, first revision
issueToken(tokenId, ownerPrivateKey, permissions, maxUses) ==
  LET token == [id |-> tokenId, permissions |-> permissions, remainingUses |-> maxUses,
                signature |-> NoSig]
  IN  [token EXCEPT !.signature = signEd25519(tokenData(token), ownerPrivateKey)]

\* token.mjs addToken
addToken(tokens, token) == { t \in tokens : t.id # token.id } \cup {token}

\* token.mjs verifyToken, first revision: the signed string is rebuilt from
\* the token as it is now
verifyToken(token, ownerPublicKey) ==
  verifyEd25519(tokenData(token), token.signature, ownerPublicKey)

\* token.mjs validateTokenForUse, first revision: the reason it returns, or
\* "valid"
validateTokenForUseReason(token, ownerPublicKey, field) ==
  IF ~verifyToken(token, ownerPublicKey) THEN "Invalid token signature"
  ELSE IF ~(token.remainingUses > 0) THEN "Token has no remaining uses"
  ELSE IF field \notin token.permissions THEN "Token does not have permission"
  ELSE "valid"

validateTokenForUse(token, ownerPublicKey, field) ==
  validateTokenForUseReason(token, ownerPublicKey, field) = "valid"

\* JavaScript values as an argument can hold them: a token object, a string,
\* undefined
NoToken == [id |-> Null, permissions |-> {}, remainingUses |-> 0, signature |-> NoSig]
JsToken(token) == [type |-> "object", token |-> token, string |-> Null]
JsString(string) == [type |-> "string", token |-> NoToken, string |-> string]
JsUndefined == [type |-> "undefined", token |-> NoToken, string |-> Null]

\* the string a token signature covers in the second revision: the id the
\* token is stored under and its permissions, not remainingUses
tokenDataV2(tokenId, token) == <<"tokenData", tokenId, token.permissions>>

\* token.mjs issueToken, second revision; id is the key the token is stored
\* under in block.tokens
issueTokenV2(tokenId, ownerPrivateKey, permissions, maxUses) ==
  LET token == [id |-> tokenId, permissions |-> permissions, remainingUses |-> maxUses,
                signature |-> NoSig]
  IN  [token EXCEPT !.signature =
         signEd25519(tokenDataV2(JsString(tokenId), token), ownerPrivateKey)]

\* token.mjs verifyToken(tokenId, token, ownerPublicKey), second revision;
\* a string or undefined in the place of the token has no signature
verifyTokenV2(tokenId, token, ownerPublicKey) ==
  IF token.type # "object" THEN FALSE
  ELSE verifyEd25519(tokenDataV2(tokenId, token.token), token.token.signature,
                     ownerPublicKey.string)

\* token.mjs validateTokenForUse(tokenId, token, ownerPublicKey, field),
\* second revision: the reason it returns, or "valid"
validateTokenForUseV2(tokenId, token, ownerPublicKey, field) ==
  IF token.type = "undefined" THEN "Token not provided"
  ELSE IF ~verifyTokenV2(tokenId, token, ownerPublicKey) THEN "Invalid token signature"
  ELSE IF ~(token.token.remainingUses > 0) THEN "Token has no remaining uses"
  ELSE IF field.type # "string" \/ field.string \notin token.token.permissions
       THEN "Token does not have permission"
  ELSE "valid"

\* verification.mjs: tokenModule.validateTokenForUse(token,
\* block.metadata.ownerPubKey, field), against either revision of token.mjs;
\* the second revision takes the token for the id, the key for the token, the
\* field for the key and has no field
validation(revision, token, ownerPubKey, field) ==
  IF revision = 1 THEN validateTokenForUseReason(token, ownerPubKey, field)
  ELSE validateTokenForUseV2(JsToken(token), JsString(ownerPubKey), JsString(field),
                             JsUndefined)

\* token.mjs decrementTokenUse
decrementTokenUse(token) ==
  IF token.remainingUses > 0
  THEN [token EXCEPT !.remainingUses = token.remainingUses - 1]
  ELSE token

\* verification.mjs verifyMultipleConditions: what it answers and the block
\* after the call. Every field of the conditions is validated in turn, the
\* first failure is returned at once; only then is the token used, once
verifyMultipleConditions(revision, block, tokenId, conditions) ==
  IF ~\E t \in block.tokens : t.id = tokenId
  THEN [error |-> "Token not found", block |-> block]
  ELSE LET token == CHOOSE t \in block.tokens : t.id = tokenId
           failed == { i \in 1..Len(conditions) :
                         validation(revision, token, block.ownerPubKey, conditions[i])
                           # "valid" }
       IN  IF failed # {}
           THEN [error |-> validation(
                             revision, token, block.ownerPubKey,
                             conditions[CHOOSE i \in failed : \A j \in failed : i <= j]),
                 block |-> block]
           ELSE [error |-> Null,
                 block |-> [block EXCEPT !.tokens =
                              addToken(block.tokens, decrementTokenUse(token))]]

\* handleRotate: the stage that follows from the number of rotations done
stageAfterRotation(block) ==
  LET rotationCount == MaxRotations - block.rotationsLeft
  IN  IF rotationCount = 0 THEN "guardian" ELSE "self"

\* findBlockByHash returns the block object of the chain itself, so what a
\* handler writes to it is written to chain[index]; the handler then calls
\* updateBlockInChain with the hash the request named and saves a snapshot
writeThrough(op, index, target, hash, update) ==
  LET c1 == [chain EXCEPT ![index] = target]
      o == IF update THEN updateBlockInChainOutcome(c1, hash, target)
           ELSE [ret |-> "none", chain |-> c1]
      u == updateChainHash(genesisBlock, masterKeyPair, o.chain, chainSignature)
      h == IF o.ret = "true" THEN u[1] ELSE chainHash
      s == IF o.ret = "true" THEN u[2] ELSE chainSignature
  IN  /\ blockOp.calls < MaxCalls
      /\ chain' = o.chain
      /\ chainHash' = h
      /\ chainSignature' = s
      /\ blockOp' = [op |-> op, index |-> index, ret |-> o.ret,
                     calls |-> blockOp.calls + 1]
      /\ boot' = [boot EXCEPT !.disk.snapshot = saveSnapshot(o.chain, h, s)]
      /\ UNCHANGED <<genesisBlock, masterKeyPair, ret, hsResponse, hsResult, staged,
                     gossipVars, ledgerCall, syncRun, ioVars>>

\* index.mjs handleUpdate, for a request whose registrar signatures pass
handleUpdate(index, now, ownerPrivateKey) ==
  writeThrough("handleUpdate", index,
               updateBlock(chain[index], now, ownerPrivateKey),
               chain[index].hash, TRUE)

\* index.mjs handleRotate; a request whose old key is not the owner's is
\* answered 403, one for a block without rotations left ends in the throw
handleRotate(index, oldPrivateKey, now) ==
  LET r == rotateBlockKey(chain[index], NewOwner, NewOwner,
                          stageAfterRotation(chain[index]), now)
  IN  IF oldPrivateKey # chain[index].ownerPubKey \/ r.ret = "threw"
      THEN writeThrough("handleRotate", index, chain[index], chain[index].hash, FALSE)
      ELSE writeThrough("handleRotate", index, r.block, chain[index].hash, TRUE)

\* index.mjs handleIssueToken
handleIssueToken(index, tokenId, ownerPrivateKey, maxUses) ==
  writeThrough("handleIssueToken", index,
               rehashAndSign([chain[index] EXCEPT !.tokens =
                                addToken(chain[index].tokens,
                                         issueToken(tokenId, ownerPrivateKey,
                                                    {"dob"}, maxUses))],
                             ownerPrivateKey),
               chain[index].hash, TRUE)

\* index.mjs handleVerify: verifyMultipleConditions on the block of the
\* chain, then saveSnapshot
handleVerify(index, tokenId) ==
  writeThrough("handleVerify", index,
               verifyMultipleConditions(1, chain[index], tokenId, Dob).block,
               chain[index].hash, FALSE)

\* the block model's exported operations applied to a block of the chain
\* by a caller that passes any stage
callRotateBlockKey(index, newStage, now) ==
  writeThrough("rotateBlockKey", index,
               rotateBlockKey(chain[index], NewOwner, NewOwner, newStage, now).block,
               chain[index].hash, FALSE)

callMarkAsDeceased(index, now) ==
  writeThrough("markAsDeceased", index,
               markAsDeceased(chain[index], now, chain[index].ownerPubKey),
               chain[index].hash, FALSE)

callUpdateLifecycleStage(index, newStage, now) ==
  writeThrough("updateLifecycleStage", index,
               updateLifecycleStage(chain[index], newStage, now),
               chain[index].hash, FALSE)

\* a running node that holds registered blocks
InitBlock ==
  /\ genesisBlock = createGenesisBlock(LocalChainId, MasterKey, MasterKey)
  /\ masterKeyPair = MasterKey
  /\ chain \in { SyncNode(n, 1, TRUE).chain : n \in 1..MaxLen }
  /\ chainHash = updateChainHash(genesisBlock, masterKeyPair, chain, NoSig)[1]
  /\ chainSignature = updateChainHash(genesisBlock, masterKeyPair, chain, NoSig)[2]
  /\ ret = Ret("none", "none", NoFacts, NoSync)
  /\ hsResponse = NoResponse
  /\ hsResult = NoResult
  /\ staged = FALSE
  /\ InitGossip
  /\ ledgerCall = NoLedgerCall
  /\ syncRun = NoSyncRun
  /\ blockOp = NoBlockOp
  /\ InitIo
  /\ boot = [NoBoot EXCEPT !.pc = "running", !.runs = 1, !.branch = "local",
                           !.disk = [genesis |-> saveGenesis(genesisBlock, masterKeyPair),
                                     snapshot |-> saveSnapshot(chain, chainHash,
                                                               chainSignature)]]

NextBlock ==
  \/ \E index \in 1..Len(chain), now \in Times :
       \E key \in {chain[index].ownerPubKey, Intruder} : handleUpdate(index, now, key)
  \/ \E index \in 1..Len(chain), now \in Times :
       \E key \in {Owner, NewOwner} : handleRotate(index, key, now)
  \/ \E index \in 1..Len(chain), tokenId \in TokenIds, maxUses \in 1..MaxUses :
       handleIssueToken(index, tokenId, chain[index].ownerPubKey, maxUses)
  \/ \E index \in 1..Len(chain), tokenId \in TokenIds : handleVerify(index, tokenId)
  \/ \E index \in 1..Len(chain), now \in Times, newStage \in Stages :
       callRotateBlockKey(index, newStage, now)
  \/ \E index \in 1..Len(chain), now \in Times : callMarkAsDeceased(index, now)
  \/ \E index \in 1..Len(chain), now \in Times, newStage \in Stages :
       callUpdateLifecycleStage(index, newStage, now)

SpecBlock == InitBlock /\ [][NextBlock]_vars

(***************************************************************************)
(* block.mjs rotateBlockKey called on a block object in any lifecycle      *)
(* state                                                                   *)
(***************************************************************************)
\* a block as createBlock and earlier rotations left it; a block object that
\* was parsed from a peer's JSON can carry any rotationsLeft
BlockInputs ==
  { rehashAndSign([createBlock(Payload, t, Owner, NullHash)
                     EXCEPT !.lifecycleStage = st, !.rotationsLeft = r], Owner) :
      t \in Times, st \in Stages, r \in (0 - 1)..MaxRotations }

\* a call of rotateBlockKey on the block object held
rotateBlockKeyCall(newOwner, newStage, now) ==
  LET r == rotateBlockKey(blockCall.block, newOwner, newOwner, newStage, now)
  IN  /\ blockCall' = [op |-> "rotateBlockKey", before |-> blockCall.block,
                       block |-> r.block, ret |-> r.ret]
      /\ UNCHANGED <<ledger, ret, hsResponse, hsResult, staged, gossipVars,
                     ledgerCall, procVars, netCall, taskVars>>

InitRotate ==
  /\ genesisBlock = NoGenesis
  /\ masterKeyPair = Null
  /\ chain = <<>>
  /\ chainHash = NullHash
  /\ chainSignature = NoSig
  /\ ret = Ret("none", "none", NoFacts, NoSync)
  /\ hsResponse = NoResponse
  /\ hsResult = NoResult
  /\ staged = FALSE
  /\ InitGossip
  /\ ledgerCall = NoLedgerCall
  /\ boot = NoBoot
  /\ syncRun = NoSyncRun
  /\ blockOp = NoBlockOp
  /\ blockCall \in { [NoBlockCall EXCEPT !.block = b] : b \in BlockInputs }
  /\ netCall = NoNetCall
  /\ InitTasks

NextRotate ==
  \E newOwner \in {Owner, NewOwner}, newStage \in Stages, now \in Times :
    rotateBlockKeyCall(newOwner, newStage, now)

SpecRotate == InitRotate /\ [][NextRotate]_vars

(***************************************************************************)
(* Outbound calls: peer-handshake.mjs sendHandshake, peer-sync.mjs         *)
(* requestSync, peer-gossip.mjs sendGossipToPeer and peer-broadcast.mjs    *)
(* broadcastToPeer.  Each creates a socket, arms a timer and returns a     *)
(* promise that the socket's handlers and the timer settle.                *)
(* performHandshake and syncWithPeer await it and turn it into a result.   *)
(* The text received is a sequence of pieces; "{" followed by "}" is the   *)
(* one JSON document.                                                      *)
(***************************************************************************)
Pieces == {"{", "}", "x", "\n"}

\* the calls that read a response, and those that only write
ReadingCalls == {"sendHandshake", "requestSync"}

WritingCalls == {"sendGossipToPeer", "broadcastToPeer"}

\* String.prototype.includes
includes(data, piece) == \E i \in 1..Len(data) : data[i] = piece

\* String.prototype.trim: white space is removed at both ends
RECURSIVE trimStart(_)
trimStart(data) ==
  IF data # <<>> /\ Head(data) = "\n" THEN trimStart(Tail(data)) ELSE data

RECURSIVE trimEnd(_)
trimEnd(data) ==
  IF data # <<>> /\ data[Len(data)] = "\n"
  THEN trimEnd(SubSeq(data, 1, Len(data) - 1)) ELSE data

trim(data) == trimEnd(trimStart(data))

\* JSON.parse returns; otherwise it throws
jsonParses(text) == text = <<"{", "}">>

\* resolve and reject: a promise is settled once
settle(call, pc, reason) ==
  IF call.pc = "pending" THEN [call EXCEPT !.pc = pc, !.reason = reason] ELSE call

clearTimeout(call) ==
  IF call.timer = "armed" THEN [call EXCEPT !.timer = "cleared"] ELSE call

\* client.destroy(): the socket emits close afterwards
destroy(call) ==
  IF call.socket \in {"connecting", "open"} THEN [call EXCEPT !.socket = "closing"]
  ELSE call

netStep(call) ==
  /\ netCall' = call
  /\ UNCHANGED <<ledger, ret, hsResponse, hsResult, staged, gossipVars, ledgerCall,
                 procVars, blockCall, taskVars>>

\* the promise executor: a socket that connects, an armed timer and an
\* empty text; before is the ledger the caller holds
newCall(fn) ==
  [NoNetCall EXCEPT !.fn = fn, !.pc = "pending", !.timer = "armed",
                    !.socket = "connecting",
                    !.before = ledgerRecord(genesisBlock, masterKeyPair, chain,
                                            chainHash, chainSignature)]

sendHandshake ==
  /\ netCall.pc = "idle"
  /\ netStep(newCall("sendHandshake"))

requestSync ==
  /\ netCall.pc = "idle"
  /\ netStep(newCall("requestSync"))

sendGossipToPeer ==
  /\ netCall.pc = "idle"
  /\ netStep(newCall("sendGossipToPeer"))

broadcastToPeer ==
  /\ netCall.pc = "idle"
  /\ netStep(newCall("broadcastToPeer"))

\* the connect callback: sendHandshake and requestSync write their message;
\* sendGossipToPeer and broadcastToPeer write, clear the timer, destroy the
\* socket and resolve(true)
onConnect ==
  /\ netCall.socket = "connecting"
  /\ LET call == [netCall EXCEPT !.socket = "open"]
     IN  netStep(IF call.fn \in WritingCalls
                 THEN settle(destroy(clearTimeout(call)), "resolved", "true")
                 ELSE call)

\* client.on('data') of sendHandshake
sendHandshakeOnData(call) ==
  IF ~includes(call.responseData, "\n") THEN call
  ELSE IF jsonParses(trim(call.responseData))
       THEN settle(destroy(clearTimeout(call)), "resolved", "response")
       ELSE settle(destroy(clearTimeout(call)), "rejected", "Invalid handshake response")

\* client.on('data') of requestSync: a text that does not parse is kept and
\* the socket stays open, unless it is longer than 10000000 characters
requestSyncOnData(call) ==
  IF ~includes(call.responseData, "\n") THEN call
  ELSE IF jsonParses(trim(call.responseData))
       THEN settle(destroy(clearTimeout(call)), "resolved", "response")
       ELSE IF call.over
            THEN settle(destroy(clearTimeout(call)), "rejected", "Sync response too large")
            ELSE clearTimeout(call)

\* a chunk arrives; over says that the text is now longer than the size cap
onData(piece, over) ==
  /\ netCall.socket = "open"
  /\ netCall.fn \in ReadingCalls
  /\ Len(netCall.responseData) < MaxBytes
  /\ LET call == [netCall EXCEPT !.responseData = Append(netCall.responseData, piece),
                                 !.over = netCall.over \/ over]
     IN  netStep(IF call.fn = "sendHandshake" THEN sendHandshakeOnData(call)
                 ELSE requestSyncOnData(call))

\* client.on('error'): connection refused or reset; close follows.  The
\* handlers of sendGossipToPeer and broadcastToPeer resolve(false)
onError ==
  /\ netCall.socket \in {"connecting", "open"}
  /\ LET call == destroy(clearTimeout(netCall))
     IN  netStep(IF call.fn \in WritingCalls THEN settle(call, "resolved", "false")
                 ELSE settle(call, "rejected", "error"))

\* client.on('close') of sendHandshake
sendHandshakeOnClose(call) ==
  IF call.responseData = <<>>
  THEN settle(clearTimeout(call), "rejected", "Connection closed without response")
  ELSE clearTimeout(call)

\* client.on('close') of requestSync
requestSyncOnClose(call) ==
  IF call.responseData # <<>> /\ includes(call.responseData, "{")
  THEN IF jsonParses(trim(call.responseData))
       THEN settle(clearTimeout(call), "resolved", "response")
       ELSE settle(clearTimeout(call), "rejected", "Invalid sync response")
  ELSE settle(clearTimeout(call), "rejected", "Connection closed without response")

\* sendGossipToPeer and broadcastToPeer register no close handler
onCloseHandler(call) ==
  CASE call.fn = "sendHandshake" -> sendHandshakeOnClose(call)
    [] call.fn = "requestSync" -> requestSyncOnClose(call)
    [] OTHER -> call

\* the peer ends the connection it accepted
onPeerClose ==
  /\ netCall.socket = "open"
  /\ netStep(onCloseHandler([netCall EXCEPT !.socket = "closed"]))

\* the close event of a socket this side destroyed
onClose ==
  /\ netCall.socket = "closing"
  /\ netStep(onCloseHandler([netCall EXCEPT !.socket = "closed"]))

\* the setTimeout callback: sendHandshake and requestSync reject,
\* sendGossipToPeer and broadcastToPeer resolve(false)
onTimeout ==
  /\ netCall.timer = "armed"
  /\ LET call == destroy([netCall EXCEPT !.timer = "fired"])
     IN  netStep(IF call.fn \in WritingCalls THEN settle(call, "resolved", "false")
                 ELSE settle(call, "rejected", "timeout"))

\* performHandshake after its await: a rejection is caught and becomes
\* { success: false }; a response goes to validateHandshakeResponse
performHandshakeReturn(response) ==
  /\ netCall.fn = "sendHandshake"
  /\ netCall.pc \in {"resolved", "rejected"}
  /\ netCall.returned = "none"
  /\ netStep([netCall EXCEPT !.returned =
       IF netCall.pc = "rejected" THEN "failure"
       ELSE IF validateHandshakeResponse(genesisBlock, chain, response).valid
            THEN "success" ELSE "failure"])

\* what a peer can send as its one JSON document where a sync response is
\* expected: a sync response, a message of another type, or null, on which
\* applySyncData throws a TypeError
JsonNull == [NotASyncResponse EXCEPT !.type = Null]

\* syncWithPeer after its await, o being what applySyncData returns and
\* leaves; a rejection or an exception is caught and becomes false
syncWithPeerStep(syncData, o) ==
  /\ netCall.fn = "requestSync"
  /\ netCall.pc \in {"resolved", "rejected"}
  /\ netCall.returned = "none"
  /\ LET failed == netCall.pc = "rejected" \/ syncData = JsonNull
     IN  /\ netCall' = [netCall EXCEPT !.returned =
                          IF failed \/ o.ret # "true" THEN "failure" ELSE "success"]
         /\ chain' = IF failed THEN chain ELSE o.chain
         /\ chainHash' = IF failed THEN chainHash ELSE o.chainHash
         /\ chainSignature' = IF failed THEN chainSignature ELSE o.chainSignature
  /\ UNCHANGED <<genesisBlock, masterKeyPair, ret, hsResponse, hsResult, staged,
                 gossipVars, ledgerCall, procVars, blockCall, taskVars>>

\* peer-sync.mjs syncWithPeer
syncWithPeerReturn(syncData) ==
  syncWithPeerStep(syncData,
                   applySyncDataOutcome(genesisBlock, masterKeyPair, chain, chainHash,
                                        chainSignature, syncData))

\* syncWithPeer of the revision whose applySyncData goes straight to
\* replaceChain
syncWithPeerReplaceReturn(syncData) ==
  syncWithPeerStep(syncData,
                   applySyncDataReplaceOutcome(genesisBlock, chain, chainHash,
                                               chainSignature, syncData))

\* the documents a peer answers a sync request with
SyncDocuments ==
  {NotASyncResponse, JsonNull} \cup
  UNION { { SyncResponse(i, b, k, NoGenesis) :
              b \in OfferedBlocks(tailHash(slice(chain, i)), MaxLen - i)
                      \cup MalformedBlocks(tailHash(slice(chain, i)), MaxLen - i),
              k \in TopKinds }
          : i \in 0..Len(chain) }

\* a node of the network c1 that holds no block or one block
InitNetCall == InitBestPeer

NextNetCall ==
  \/ sendHandshake
  \/ requestSync
  \/ sendGossipToPeer
  \/ broadcastToPeer
  \/ onConnect
  \/ \E piece \in Pieces, over \in BOOLEAN : onData(piece, over)
  \/ onError
  \/ onPeerClose
  \/ onClose
  \/ onTimeout
  \/ \E response \in HandshakeResponses : performHandshakeReturn(response)
  \/ \E syncData \in SyncDocuments : syncWithPeerReturn(syncData)
  \/ \E syncData \in SyncDocuments : syncWithPeerReplaceReturn(syncData)

\* an armed timer fires and a destroyed socket emits close; what the peer
\* does, and when, is up to the peer
SpecNetCall ==
  InitNetCall /\ [][NextNetCall]_vars /\ WF_vars(onTimeout) /\ WF_vars(onClose)

(***************************************************************************)
(* Sync attempts beside each other and beside local calls.  A function     *)
(* runs without interruption up to its next await: chain.mjs has no await, *)
(* so each of its calls is one step; syncWithPeer is suspended at          *)
(* await requestSync and, after a successful replaceChain, at              *)
(* await storage.saveSnapshot                                              *)
(***************************************************************************)
taskStep(t, task) ==
  /\ syncTask' = [syncTask EXCEPT ![t] = task]
  /\ UNCHANGED <<server, hsRound, apiCall, outbox, inbox>>

\* network.mjs handleIncomingMessage, case GOSSIP: syncWithPeer(peerAddress)
\* with the default fromIndex, not awaited
gossipSync ==
  /\ syncTask["gossip"].pc = "idle"
  /\ syncTask["gossip"].runs < MaxSyncs
  /\ taskStep("gossip", [NoSyncTask EXCEPT !.pc = "requested",
                                           !.runs = syncTask["gossip"].runs + 1])
  /\ UNCHANGED <<ledger, ret, hsResponse, hsResult, staged, gossipVars,
                 ledgerCall, procVars, blockCall, netCall>>

\* syncWithBestPeer from the discovery timer: fromIndex is the chain length
\* at the time of the call
timerSync ==
  /\ syncTask["timer"].pc = "idle"
  /\ syncTask["timer"].runs < MaxSyncs
  /\ taskStep("timer", [NoSyncTask EXCEPT !.pc = "requested",
                                          !.fromIndex = Len(chain),
                                          !.runs = syncTask["timer"].runs + 1])
  /\ UNCHANGED <<ledger, ret, hsResponse, hsResult, staged, gossipVars,
                 ledgerCall, procVars, blockCall, netCall>>

\* requestSync resolves and applySyncData runs up to its await or its end
syncReply(t, syncData) ==
  LET o == applySyncDataReplaceOutcome(genesisBlock, chain, chainHash,
                                       chainSignature, syncData)
  IN  /\ syncTask[t].pc = "requested"
      /\ syncData.fromIndex = syncTask[t].fromIndex
      /\ chain' = o.chain
      /\ chainHash' = o.chainHash
      /\ chainSignature' = o.chainSignature
      /\ staged' = IF o.replaced THEN o.staged ELSE staged
      /\ ret' = Ret("syncWithPeer", IF o.ret = "true" THEN "true" ELSE "false",
                    NoFacts, NoSync)
      /\ taskStep(t, [pc |-> IF o.ret = "true" /\ o.replaced THEN "saving" ELSE "idle",
                      fromIndex |-> 0,
                      runs |-> syncTask[t].runs,
                      snapshot |-> "none",
                      returned |-> "none"])
      /\ UNCHANGED <<genesisBlock, masterKeyPair, hsResponse, hsResult, gossipVars,
                     ledgerCall, procVars, blockCall, netCall>>

\* storage.saveSnapshot is fulfilled: chain.json holds the new chain, and
\* applySyncData returns success
saveSnapshotSettles(t) ==
  /\ syncTask[t].pc = "saving"
  /\ taskStep(t, [syncTask[t] EXCEPT !.pc = "idle", !.snapshot = "written",
                                     !.returned = "true"])
  /\ UNCHANGED <<ledger, ret, hsResponse, hsResult, staged, gossipVars,
                 ledgerCall, procVars, blockCall, netCall>>

\* storage.saveSnapshot rejects (fs.writeFile fails, or the storage path is
\* not set): applySyncData catches and logs the error, and returns success
saveSnapshotFails(t) ==
  /\ syncTask[t].pc = "saving"
  /\ taskStep(t, [syncTask[t] EXCEPT !.pc = "idle", !.snapshot = "failed",
                                     !.returned = "true"])
  /\ UNCHANGED <<ledger, ret, hsResponse, hsResult, staged, gossipVars,
                 ledgerCall, procVars, blockCall, netCall>>

\* what a peer answers a request from index i with: blocks it created at
\* the latest time, with at most one fault, or ending in the object {}
PeerBlocks(prev, n) ==
  UNION { { BuildChain(prev, [j \in 1..k |-> MaxTime], d, 1) :
              d \in Defects(k) \cup [pos : {k} \ {0}, kind : {"empty"}] }
          : k \in 0..n }

SyncReplies(i) ==
  { SyncResponse(i, b, k, NoGenesis) :
      b \in PeerBlocks(tailHash(slice(chain, i)), MaxLen - Len(slice(chain, i))),
      k \in {"signed", "foreign", "replayed"} }

\* the owner's new version of the block with that hash, intact or with a
\* wrong hash
LocalUpdates(hash) ==
  { b \in UpdateInputs(hash) :
      /\ b.createdAt = MaxTime
      /\ b.signature = signEd25519(blockData(b), Owner)
      /\ b.prevHash = (IF findIndex(chain, hash) > 0
                       THEN chain[findIndex(chain, hash)].prevHash ELSE NullHash) }

InitInterleaved == InitBestPeer

NextInterleaved ==
  \/ gossipSync
  \/ timerSync
  \/ \E t \in SyncTasks : \E syncData \in SyncReplies(syncTask[t].fromIndex) :
       syncReply(t, syncData)
  \/ \E t \in SyncTasks : saveSnapshotSettles(t)
  \/ \E b \in AddInputs : addBlock(b)
  \/ /\ ledgerCall.calls < MaxLocal
     /\ \E hash \in HashInputs :
          \E b \in LocalUpdates(hash) : updateBlockInChain(hash, b)
  \/ /\ ledgerCall.calls < MaxLocal
     /\ \E hash \in HashInputs : removeBlock(hash)

SpecInterleaved == InitInterleaved /\ [][NextInterleaved]_vars

\* sync attempts with the disk write that follows a replaced chain
InitPersist ==
  /\ genesisBlock = createGenesisBlock(LocalChainId, MasterKey, MasterKey)
  /\ masterKeyPair = MasterKey
  /\ chain \in LocalChains
  /\ chainHash = updateChainHash(genesisBlock, masterKeyPair, chain, NoSig)[1]
  /\ chainSignature = updateChainHash(genesisBlock, masterKeyPair, chain, NoSig)[2]
  /\ ret = Ret("none", "none", NoFacts, NoSync)
  /\ hsResponse = NoResponse
  /\ hsResult = NoResult
  /\ staged = FALSE
  /\ InitOthers

NextPersist ==
  \/ gossipSync
  \/ timerSync
  \/ \E t \in SyncTasks : \E syncData \in SyncReplies(syncTask[t].fromIndex) :
       syncReply(t, syncData)
  \/ \E t \in SyncTasks : saveSnapshotSettles(t)
  \/ \E t \in SyncTasks : saveSnapshotFails(t)

SpecPersist == InitPersist /\ [][NextPersist]_vars

(***************************************************************************)
(* network.mjs startP2PServer: the data handler of an inbound connection.  *)
(* The peer's text reaches the socket as UTF-8 bytes, cut into chunks      *)
(* anywhere; "{" s "}" stands for a JSON object whose string holds the     *)
(* characters s, and the letter e with an acute accent takes two bytes.    *)
(***************************************************************************)
Accented == "e-acute"

LeadByte == "C3"

ContinuationByte == "A9"

\* U+FFFD, which the decoder puts in place of an incomplete sequence
Replacement == "U+FFFD"

RECURSIVE utf8(_)
\* the bytes the sending peer's socket.write puts on the wire
utf8(text) ==
  IF text = <<>> THEN <<>>
  ELSE (IF Head(text) = Accented THEN <<LeadByte, ContinuationByte>>
        ELSE <<Head(text)>>) \o utf8(Tail(text))

RECURSIVE toString(_)
\* data.toString(): each chunk is decoded on its own
toString(data) ==
  IF data = <<>> THEN <<>>
  ELSE IF Head(data) = LeadByte /\ Len(data) >= 2 /\ data[2] = ContinuationByte
  THEN <<Accented>> \o toString(SubSeq(data, 3, Len(data)))
  ELSE IF Head(data) \in {LeadByte, ContinuationByte}
  THEN <<Replacement>> \o toString(Tail(data))
  ELSE <<Head(data)>> \o toString(Tail(data))

RECURSIVE split(_)
\* dataBuffer.split('\n')
split(text) ==
  IF ~includes(text, "\n") THEN <<text>>
  ELSE LET i == CHOOSE k \in 1..Len(text) :
                  text[k] = "\n" /\ \A j \in 1..(k - 1) : text[j] # "\n"
       IN  <<SubSeq(text, 1, i - 1)>> \o split(SubSeq(text, i + 1, Len(text)))

\* JSON.parse(messageStr) returns
parses(messageStr) ==
  /\ Len(messageStr) >= 2
  /\ messageStr[1] = "{"
  /\ messageStr[Len(messageStr)] = "}"
  /\ \A i \in 2..(Len(messageStr) - 1) : messageStr[i] \in {Accented, Replacement}

\* the lines of messages that reach handleIncomingMessage
dispatch(messages) ==
  SelectSeq(messages, LAMBDA messageStr : trim(messageStr) # <<>> /\ parses(messageStr))

\* the lines a peer sends: two messages, a malformed line and a blank one
PeerLines == {<<"{", "}">>, <<"{", Accented, "}">>, <<"x">>, <<>>}

RECURSIVE joinLines(_)
joinLines(lines) ==
  IF lines = <<>> THEN <<>>
  ELSE Head(lines) \o <<"\n">> \o joinLines(Tail(lines))

\* up to MaxLines terminated lines, with or without the start of another
PeerStreams ==
  { joinLines(lines) \o rest :
      lines \in UNION { [1..n -> PeerLines] : n \in 0..MaxLines },
      rest \in {<<>>, <<"{">>} }

serverStep(s) ==
  /\ server' = s
  /\ UNCHANGED <<ledger, ret, hsResponse, hsResult, staged, gossipVars, ledgerCall,
                 procVars, blockCall, netCall, syncTask, hsRound, apiCall, outbox, inbox>>

\* net.createServer's callback: a peer connects and will send text
connection(text) ==
  /\ server.pc = "listening"
  /\ serverStep([NoConnection EXCEPT !.pc = "connected", !.wire = utf8(text)])

\* socket.on('data'): the next n bytes arrive as one chunk.  The awaits in
\* the handler settle before the next chunk is read, so it runs as one step
onSocketData(n) ==
  LET data == SubSeq(server.wire, 1, n)
      text == server.dataBuffer \o toString(data)
      messages == split(text)
  IN  /\ server.pc = "connected"
      /\ n \in 1..Len(server.wire)
      /\ serverStep([server EXCEPT
                       !.wire = SubSeq(server.wire, n + 1, Len(server.wire)),
                       !.received = server.received \o data,
                       !.dataBuffer = messages[Len(messages)],
                       !.dispatched =
                          server.dispatched \o
                            dispatch(SubSeq(messages, 1, Len(messages) - 1))])

InitServer == InitBestPeer

NextServer ==
  \/ \E text \in PeerStreams : connection(text)
  \/ \E n \in 1..Len(server.wire) : onSocketData(n)

SpecServer == InitServer /\ [][NextServer]_vars

(***************************************************************************)
(* peer-handshake.mjs handshakeWithPeers: one performHandshake per address,*)
(* awaited together with Promise.allSettled                                *)
(***************************************************************************)
\* the order of peerAddresses
PeerAddresses == <<"p1", "p2">>

\* a peer answers with a response, refuses the connection, stays silent
\* until the timer fires, or writes text without a newline and closes
PeerAnswers ==
  [does : {"responds"},
   response : { HandshakeResponseOf(type, LocalChainId, chainLength, 1, "none") :
                  type \in {"HANDSHAKE_RESPONSE", "HANDSHAKE"},
                  chainLength \in {0, MaxLen} }]
    \cup [does : {"refuses", "silent", "garbles"}, response : {NoResponse}]

\* { success: false, reason }
Failed(reason) == [NoResult EXCEPT !.reason = reason]

\* what performHandshake returns for an address whose sendHandshake settled
performHandshakeResult(revision, answer) ==
  CASE answer.does = "refuses" -> Failed("ECONNREFUSED")
    [] answer.does = "silent" -> Failed("Handshake timeout")
    [] OTHER ->
         IF revision = 1
         THEN validateHandshakeResponse(genesisBlock, chain, answer.response)
         ELSE validateHandshakeResponseDocumented(genesisBlock, chain, answer.response)

roundStep(r) ==
  /\ hsRound' = r
  /\ UNCHANGED <<ledger, ret, hsResponse, hsResult, staged, gossipVars, ledgerCall,
                 procVars, blockCall, netCall, syncTask, server, apiCall, outbox, inbox>>

\* handshakeWithPeers up to its await
handshakeWithPeers(revision, answers) ==
  /\ hsRound.pc = "idle"
  /\ roundStep([NoRound EXCEPT !.pc = "waiting", !.revision = revision,
                               !.answers = answers,
                               !.promise = [a \in Peers |-> "pending"]])

\* the promise of one address is fulfilled: performHandshake never rejects
performHandshakeReturns(a) ==
  /\ hsRound.pc = "waiting"
  /\ hsRound.promise[a] = "pending"
  /\ hsRound.answers[a].does # "garbles"
  /\ roundStep([hsRound EXCEPT
                  !.promise[a] = "fulfilled",
                  !.value[a] = performHandshakeResult(hsRound.revision, hsRound.answers[a])])

\* the close handler of sendHandshake sees responseData that is not empty:
\* the timer is cleared and the promise is left as it is
sendHandshakeStalls(a) ==
  /\ hsRound.pc = "waiting"
  /\ hsRound.promise[a] = "pending"
  /\ hsRound.answers[a].does = "garbles"
  /\ roundStep([hsRound EXCEPT !.promise[a] = "stalled"])

RECURSIVE roundResults(_, _, _)
\* the array handshakeWithPeers returns, address by address
roundResults(revision, value, i) ==
  IF i > Len(PeerAddresses) THEN <<>>
  ELSE LET v == value[PeerAddresses[i]]
       IN  (IF v.valid THEN <<v>>
            ELSE IF revision = 1 THEN <<>>
            ELSE <<Failed("Unknown error")>>)
             \o roundResults(revision, value, i + 1)

\* Promise.allSettled resolves once every promise is settled
handshakeWithPeersReturns ==
  /\ hsRound.pc = "waiting"
  /\ \A a \in Peers : hsRound.promise[a] = "fulfilled"
  /\ roundStep([hsRound EXCEPT
                  !.pc = "returned",
                  !.returned = roundResults(hsRound.revision, hsRound.value, 1)])

InitRound == InitBestPeer

NextRound ==
  \/ \E revision \in {1, 2}, answers \in [Peers -> PeerAnswers] :
       handshakeWithPeers(revision, answers)
  \/ \E a \in Peers : performHandshakeReturns(a)
  \/ \E a \in Peers : sendHandshakeStalls(a)
  \/ handshakeWithPeersReturns

SpecRound ==
  /\ InitRound /\ [][NextRound]_vars
  /\ WF_vars(\E a \in Peers : performHandshakeReturns(a))
  /\ WF_vars(handshakeWithPeersReturns)

(***************************************************************************)
(* index.mjs handleRegister: POST /api/register                            *)
(***************************************************************************)
\* consensusConfig.requiredSignatures.registration: the documented default
RequiredRegistration == 2

\* consensusConfig.KeyRegistry, in the order of the configuration file
KeyRegistry == <<"R1", "R2", "R3">>

Registrars == { KeyRegistry[i] : i \in 1..Len(KeyRegistry) }

\* a registrarPrivateKey that is no key: derivePublicKeyFromPrivate throws
NotAKey == "garbage"

\* an element of body.signatures that is not a string
NotAString == [signer |-> "number", msg |-> <<"number">>]

\* JSON.stringify(body.data)
stringify(data) == <<"json", data>>

\* a registrar is tried for a signature whoever submitted the request
triesRegistrar_allowSubmitter(registrarPubKey, submitter, validated) ==
  registrarPubKey \notin validated

\* the registrars a signature is tried against: not the submitting one, and
\* none that already signed
triesRegistrar(registrarPubKey, submitter, validated) ==
  /\ registrarPubKey # submitter
  /\ registrarPubKey \notin validated

RECURSIVE validateSignatures(_, _, _, _)
\* the loop over body.signatures: the status it answers with, or 0 when
\* every signature verified under a registrar not seen before
validateSignatures(signatures, message, submitter, validated) ==
  IF signatures = <<>> THEN 0
  ELSE IF Head(signatures) = NotAString THEN 400
  ELSE LET valid == { i \in 1..Len(KeyRegistry) :
                        /\ triesRegistrar(KeyRegistry[i], submitter, validated)
                        /\ verifyEd25519(message, Head(signatures), KeyRegistry[i]) }
       IN  IF valid = {} THEN 401
           ELSE LET first == CHOOSE i \in valid : \A j \in valid : i <= j
                IN  validateSignatures(Tail(signatures), message, submitter,
                                       validated \cup {KeyRegistry[first]})

\* the status of the checks before the block is created, 0 when all pass
registerChecks(body, requiredSigs) ==
  IF \/ body.data = Null \/ body.registrarPrivateKey = Null
     \/ body.isArray = Null \/ body.parentKeys = Null
  THEN 400
  ELSE IF body.isArray = "false" THEN 400
  ELSE IF body.parentKeys = "empty" THEN 400
  ELSE IF Len(body.signatures) < requiredSigs THEN 403
  ELSE IF body.registrarPrivateKey = NotAKey THEN 400
  ELSE IF body.registrarPrivateKey \notin Registrars THEN 403
  ELSE validateSignatures(body.signatures, stringify(body.data),
                          body.registrarPrivateKey, {})

\* the request satisfies what the documentation asks of a registration
entitled(body, requiredSigs) ==
  /\ body.registrarPrivateKey \in Registrars
  /\ body.isArray = "true"
  /\ Len(body.signatures) >= requiredSigs
  /\ \A i \in 1..Len(body.signatures) :
       /\ \E k \in Registrars \ {body.registrarPrivateKey} :
            verifyEd25519(stringify(body.data), body.signatures[i], k)
       /\ \A j \in 1..Len(body.signatures) :
            i # j => body.signatures[i].signer # body.signatures[j].signer

\* body.signatures is absent (isArray is null), something else than an
\* array, or an array; body.parentKeys is absent, empty or holds a key.
\* The signatures a request can carry: by registrars and by a stranger over
\* the data, by a registrar over other data, and a number
OfferedSignatures(data) ==
  { signEd25519(stringify(data), k) : k \in Registrars \cup {Intruder} }
    \cup {signEd25519(stringify("other"), "R2"), NotAString}

RegisterBodies ==
  { [data |-> "d1", registrarPrivateKey |-> key, isArray |-> "true",
     signatures |-> sigs, parentKeys |-> "one"] :
      key \in {NotAKey, Intruder} \cup Registrars,
      sigs \in UNION { [1..n -> OfferedSignatures("d1")] : n \in 0..MaxSigs } }
    \cup
  { [data |-> data, registrarPrivateKey |-> key, isArray |-> a,
     signatures |-> <<signEd25519(stringify("d1"), "R2"),
                      signEd25519(stringify("d1"), "R3")>>,
     parentKeys |-> parents] :
      data \in {Null, "d1"}, key \in {Null, "R1"}, a \in {Null, "false", "true"},
      parents \in {Null, "empty", "one"} }

\* handleRegister up to its response; the new block is created at time now
handleRegister(body, requiredSigs, now) ==
  LET status == registerChecks(body, requiredSigs)
      prevHash == tailHash(chain)
      newBlock == createBlock(Payload, now, Owner, prevHash)
      added == status = 0 /\ addBlockAccepts(chain, newBlock)
      c == Append(chain, newBlock)
      u == updateChainHash(genesisBlock, masterKeyPair, c, chainSignature)
  IN  /\ apiCall.calls < MaxCalls
      /\ Len(chain) < MaxLen
      /\ chain' = IF added THEN c ELSE chain
      /\ chainHash' = IF added THEN u[1] ELSE chainHash
      /\ chainSignature' = IF added THEN u[2] ELSE chainSignature
      /\ apiCall' = [op |-> "handleRegister",
                     registrar |-> body.registrarPrivateKey,
                     provided |-> Len(body.signatures),
                     status |-> IF status # 0 THEN status
                                ELSE IF added THEN 201 ELSE 500,
                     entitled |-> entitled(body, requiredSigs),
                     calls |-> apiCall.calls + 1]
      /\ UNCHANGED <<genesisBlock, masterKeyPair, ret, hsResponse, hsResult, staged,
                     gossipVars, ledgerCall, procVars, blockCall, netCall,
                     syncTask, server, hsRound, outbox, inbox>>

InitRegister == InitPersist

NextRegister ==
  \E body \in RegisterBodies :
    handleRegister(body, RequiredRegistration, MaxTime)

SpecRegister == InitRegister /\ [][NextRegister]_vars

(***************************************************************************)
(* peer-handshake.mjs createHandshakeMessage and handleHandshake on the    *)
(* node itself; the file holds two revisions of each                       *)
(***************************************************************************)
\* revision 1 sends metadata.length + 1, revision 2 metadata.length
createHandshakeMessage(revision) ==
  LET metadata == getChainMetadata
  IN  [type |-> "HANDSHAKE",
       chainId |-> genesisBlock.chainId,
       chainLength |-> IF revision = 1 THEN metadata.length + 1 ELSE metadata.length,
       chainHash |-> metadata.chainHash,
       chainSignature |-> metadata.chainSignature,
       masterPubKey |-> metadata.masterPubKey,
       lastUpdated |-> metadata.lastUpdated]

outboxStep(o) ==
  /\ outbox' = o
  /\ UNCHANGED <<ledger, ret, hsResponse, hsResult, staged, gossipVars, ledgerCall,
                 procVars, blockCall, netCall, syncTask, server, hsRound, apiCall, inbox>>

\* sendHandshake builds the message it writes to the peer
createHandshakeMessageCall(revision) ==
  outboxStep([fn |-> "createHandshakeMessage", revision |-> revision,
              message |-> createHandshakeMessage(revision)])

\* handleHandshake(message, peerId): a message of another type throws
handleHandshakeCall(revision, type) ==
  outboxStep([fn |-> "handleHandshake", revision |-> revision,
              message |-> IF type # "HANDSHAKE" THEN NoResponse
                          ELSE [createHandshakeMessage(revision)
                                  EXCEPT !.type = "HANDSHAKE_RESPONSE"]])

InitHello ==
  /\ genesisBlock \in {NoGenesis, createGenesisBlock(LocalChainId, MasterKey, MasterKey)}
  /\ masterKeyPair = setGenesisBlockKey(genesisBlock, Null)
  /\ chain \in LocalChains
  /\ chainHash = updateChainHash(genesisBlock, masterKeyPair, chain, NoSig)[1]
  /\ chainSignature = updateChainHash(genesisBlock, masterKeyPair, chain, NoSig)[2]
  /\ ret = Ret("none", "none", NoFacts, NoSync)
  /\ hsResponse = NoResponse
  /\ hsResult = NoResult
  /\ staged = FALSE
  /\ InitOthers

NextHello ==
  \/ \E revision \in {1, 2} : createHandshakeMessageCall(revision)
  \/ \E revision \in {1, 2}, type \in {"HANDSHAKE", "GOSSIP"} :
       handleHandshakeCall(revision, type)
  \/ \E b \in AddInputs : addBlock(b)

SpecHello == InitHello /\ [][NextHello]_vars

(***************************************************************************)
(* Chain events between two nodes: node A changes its chain through an     *)
(* index.mjs handler and broadcasts the event (broadcast.mjs); this node,  *)
(* whose chain was A's before the change, takes the event in               *)
(* network.mjs handleIncomingMessage                                       *)
(***************************************************************************)
ChainState(c, h) == [chain |-> c, chainHash |-> h]

\* broadcast.mjs event constructors
createNewBlockEvent(block) == [NoEvent EXCEPT !.type = "NEW_BLOCK", !.block = block]

createUpdateBlockEvent(block) == [NoEvent EXCEPT !.type = "UPDATE_BLOCK", !.block = block]

createRotateKeyEvent(blockHash, newStage) ==
  [NoEvent EXCEPT !.type = "ROTATE_KEY", !.blockHash = blockHash, !.newStage = newStage]

createPruneBlockEvent(blockHash) ==
  [NoEvent EXCEPT !.type = "PRUNE_BLOCK", !.blockHash = blockHash]

\* broadcast.mjs handleEvent
handleEvent(event) ==
  IF event.type = Null THEN [processed |-> FALSE, action |-> Null, data |-> NoEvent]
  ELSE CASE event.type = "NEW_BLOCK" ->
              [processed |-> TRUE, action |-> "add_block",
               data |-> [NoEvent EXCEPT !.block = event.block]]
         [] event.type = "UPDATE_BLOCK" ->
              [processed |-> TRUE, action |-> "update_block",
               data |-> [NoEvent EXCEPT !.block = event.block]]
         [] event.type = "ROTATE_KEY" ->
              [processed |-> TRUE, action |-> "rotate_key",
               data |-> [NoEvent EXCEPT !.blockHash = event.blockHash,
                                        !.newStage = event.newStage]]
         [] event.type = "PRUNE_BLOCK" ->
              [processed |-> TRUE, action |-> "prune_block",
               data |-> [NoEvent EXCEPT !.blockHash = event.blockHash]]
         [] OTHER -> [processed |-> FALSE, action |-> Null, data |-> NoEvent]

\* network.mjs processEventAction: the chain it leaves; rotate_key has no
\* case and falls to the default, which logs
processEventAction(eventResult) ==
  CASE eventResult.action = "add_block" ->
         IF addBlockAccepts(chain, eventResult.data.block)
         THEN Append(chain, eventResult.data.block) ELSE chain
    [] eventResult.action = "update_block" ->
         updateBlockInChainOutcome(chain, eventResult.data.block.hash,
                                   eventResult.data.block).chain
    [] eventResult.action = "prune_block" ->
         removeBlockOutcome(chain, eventResult.data.blockHash).chain
    [] OTHER -> chain

\* network.mjs handleIncomingMessage for an event message; chain.mjs
\* recomputes chainHash and chainSignature whenever it changed the chain
handleIncomingMessage(event, sender) ==
  LET eventResult == handleEvent(event)
      c == IF eventResult.processed THEN processEventAction(eventResult) ELSE chain
      u == updateChainHash(genesisBlock, masterKeyPair, c, chainSignature)
  IN  /\ inbox.events < MaxCalls
      /\ inbox' = [event |-> event, sender |-> sender, events |-> inbox.events + 1]
      /\ chain' = c
      /\ chainHash' = IF c # chain THEN u[1] ELSE chainHash
      /\ chainSignature' = IF c # chain THEN u[2] ELSE chainSignature
      /\ ret' = Ret("handleIncomingMessage", "none", NoFacts, NoSync)
      /\ UNCHANGED <<genesisBlock, masterKeyPair, hsResponse, hsResult, staged,
                     gossipVars, ledgerCall, procVars, blockCall, netCall,
                     syncTask, server, hsRound, apiCall, outbox>>

\* node A after chain.addBlock(newBlock) returned true
afterAddBlock(newBlock) ==
  LET c == Append(chain, newBlock)
  IN  ChainState(c, updateChainHash(genesisBlock, masterKeyPair, c, chainSignature)[1])

\* node A after a handler wrote target over its block at index and called
\* updateBlockInChain with the hash of the request
afterUpdate(index, target, hash) ==
  LET c1 == [chain EXCEPT ![index] = target]
      o == updateBlockInChainOutcome(c1, hash, target)
  IN  ChainState(o.chain,
                 IF o.ret = "true"
                 THEN updateChainHash(genesisBlock, masterKeyPair, o.chain, chainSignature)[1]
                 ELSE chainHash)

\* node A after chain.removeBlock(hash)
afterRemoveBlock(hash) ==
  LET o == removeBlockOutcome(chain, hash)
  IN  ChainState(o.chain,
                 IF o.ret = "true"
                 THEN updateChainHash(genesisBlock, masterKeyPair, o.chain, chainSignature)[1]
                 ELSE chainHash)

\* index.mjs handleRegister on A: addBlock, then broadcastNewBlock(newBlock)
newBlockBroadcast(newBlock) ==
  /\ Len(chain) < MaxLen
  /\ addBlockAccepts(chain, newBlock)
  /\ handleIncomingMessage(createNewBlockEvent(newBlock), afterAddBlock(newBlock))

\* index.mjs handleUpdate on A: updateBlock on the block found,
\* updateBlockInChain(body.blockHash, targetBlock), broadcastBlockUpdate
blockUpdateBroadcast(index, now) ==
  LET targetBlock == updateBlock(chain[index], now, chain[index].ownerPubKey)
  IN  handleIncomingMessage(createUpdateBlockEvent(targetBlock),
                            afterUpdate(index, targetBlock, chain[index].hash))

\* index.mjs handleRotate on A: rotateBlockKey on the block found,
\* updateBlockInChain, broadcastKeyRotation(targetBlock.hash, newStage)
keyRotationBroadcast(index, now) ==
  LET newStage == stageAfterRotation(chain[index])
      r == rotateBlockKey(chain[index], NewOwner, NewOwner, newStage, now)
  IN  /\ r.ret # "threw"
      /\ handleIncomingMessage(createRotateKeyEvent(r.block.hash, newStage),
                               afterUpdate(index, r.block, chain[index].hash))

\* A removes a block with chain.removeBlock and announces it with
\* broadcast.mjs broadcastPruning
pruningBroadcast(hash) ==
  handleIncomingMessage(createPruneBlockEvent(hash), afterRemoveBlock(hash))

InitEvents == InitPersist

NextEvents ==
  \/ \E newBlock \in AddInputs : newBlockBroadcast(newBlock)
  \/ \E index \in 1..Len(chain), now \in Times : blockUpdateBroadcast(index, now)
  \/ \E index \in 1..Len(chain), now \in Times : keyRotationBroadcast(index, now)
  \/ \E hash \in HashInputs : pruningBroadcast(hash)

SpecEvents == InitEvents /\ [][NextEvents]_vars

(***************************************************************************)
(* index.mjs handleIssueToken and handleVerify as HTTP requests, against   *)
(* either revision of token.mjs                                            *)
(***************************************************************************)
TokenUseLimit == 5

\* the chain, chain hash and chain signature after a handler wrote target
\* over the block at index and called updateBlockInChain(hash, target)
written(index, target, hash) ==
  LET c1 == [chain EXCEPT ![index] = target]
      o == updateBlockInChainOutcome(c1, hash, target)
      u == updateChainHash(genesisBlock, masterKeyPair, o.chain, chainSignature)
  IN  [chain |-> o.chain,
       chainHash |-> IF o.ret = "true" THEN u[1] ELSE chainHash,
       chainSignature |-> IF o.ret = "true" THEN u[2] ELSE chainSignature]

tokenRequest(call, w) ==
  /\ apiCall.calls < MaxCalls + MaxUses
  /\ apiCall' = [call EXCEPT !.calls = apiCall.calls + 1]
  /\ chain' = w.chain
  /\ chainHash' = w.chainHash
  /\ chainSignature' = w.chainSignature
  /\ UNCHANGED <<genesisBlock, masterKeyPair, ret, hsResponse, hsResult, staged,
                 gossipVars, ledgerCall, procVars, blockCall, netCall,
                 syncTask, server, hsRound, outbox, inbox>>

NoTokenCall == [op |-> Null, revision |-> 0, index |-> 0, tokenId |-> Null,
                conditions |-> <<>>, status |-> 0, error |-> Null, calls |-> 0]

\* POST /api/token: the first revision of the handler (part_014) has no
\* bound on maxUses
handleIssueTokenRequest(revision, index, tokenId, ownerPrivateKey, permissions, maxUses) ==
  LET call == [NoTokenCall EXCEPT !.op = "handleIssueToken", !.revision = revision,
                                  !.index = index, !.tokenId = tokenId]
      token == IF revision = 1
               THEN issueToken(tokenId, ownerPrivateKey, permissions, maxUses)
               ELSE issueTokenV2(tokenId, ownerPrivateKey, permissions, maxUses)
      targetBlock == rehashAndSign([chain[index] EXCEPT !.tokens = addToken(@, token)],
                                   ownerPrivateKey)
  IN  IF maxUses = 0 \/ permissions = {}
           \/ (revision = 2 /\ (maxUses > TokenUseLimit \/ maxUses < 1))
      THEN tokenRequest([call EXCEPT !.status = 400], written(index, chain[index],
                                                              chain[index].hash))
      ELSE tokenRequest([call EXCEPT !.status = 201],
                        written(index, targetBlock, chain[index].hash))

\* POST /api/verify: verifyMultipleConditions works on the block object of
\* the chain; its error never reaches the status, which is 200
handleVerifyRequest(revision, index, tokenId, conditions) ==
  LET r == verifyMultipleConditions(revision, chain[index], tokenId, conditions)
  IN  tokenRequest([NoTokenCall EXCEPT !.op = "handleVerify", !.revision = revision,
                                       !.index = index, !.tokenId = tokenId,
                                       !.conditions = conditions, !.status = 200,
                                       !.error = r.error],
                   [chain |-> [chain EXCEPT ![index] = r.block],
                    chainHash |-> chainHash, chainSignature |-> chainSignature])

\* a node holding one registered block; every request of a run meets the
\* same revision of token.mjs
InitToken ==
  /\ InitBestPeer
  /\ Len(chain) = 1

NextToken ==
  \/ \E revision \in {1, 2}, tokenId \in TokenIds, maxUses \in 0..MaxUses,
        ownerPrivateKey \in {Owner, Intruder}, permissions \in {{"dob"}, Fields} :
       /\ IF apiCall.op = Null THEN TRUE ELSE apiCall.revision = revision
       /\ handleIssueTokenRequest(revision, 1, tokenId, ownerPrivateKey, permissions, maxUses)
  \/ \E revision \in {1, 2}, tokenId \in TokenIds,
        conditions \in {<<"dob">>, <<"name">>, <<"dob", "name">>} :
       /\ IF apiCall.op = Null THEN TRUE ELSE apiCall.revision = revision
       /\ handleVerifyRequest(revision, 1, tokenId, conditions)

SpecToken == InitToken /\ [][NextToken]_vars

(***************************************************************************)
(* index.mjs handleUpdate: POST /api/update                                *)
(***************************************************************************)
\* the AES key the fields of a block were encrypted with
DataKey == "aes"

\* the status of the checks before the block is touched, 0 when all pass
updateChecks(body, requiredSigs) ==
  IF \/ body.blockHash = NullHash \/ body.newData = Null \/ body.encryptionKey = Null
     \/ body.ownerPrivateKey = Null \/ body.registrarPrivateKey = Null
     \/ body.isArray = Null
  THEN 400
  ELSE IF body.isArray = "false" THEN 400
  ELSE IF Len(body.signatures) < requiredSigs THEN 400
  ELSE IF findIndex(chain, body.blockHash) = 0 THEN 404
  ELSE IF body.registrarPrivateKey = NotAKey THEN 400
  ELSE IF body.registrarPrivateKey \notin Registrars THEN 403
  ELSE validateSignatures(body.signatures, stringify(body.newData),
                          body.registrarPrivateKey, {})

\* block.mjs updateBlock up to the point where signEd25519 throws on a
\* private key that is no key: data, updatedAt and hash are written
updateBlockUnsigned(block, now) ==
  LET b == [block EXCEPT !.encryptedData = encryptFields(block.encryptedData),
                         !.updatedAt = now]
  IN  [b EXCEPT !.hash = calculateBlockHash(b)]

\* handleUpdate up to its response. decryptFields throws on a wrong
\* encryption key before anything is written; an exception ends the request
\* with 500 (index.mjs:218-220)
handleUpdateRequest(body, requiredSigs, now) ==
  LET status == updateChecks(body, requiredSigs)
      index == findIndex(chain, body.blockHash)
      call == [op |-> "handleUpdate", index |-> index,
               ownerPrivateKey |-> body.ownerPrivateKey, status |-> status,
               calls |-> apiCall.calls + 1]
      same == [chain |-> chain, chainHash |-> chainHash,
               chainSignature |-> chainSignature]
      w == IF status # 0 \/ body.encryptionKey # DataKey THEN same
           ELSE IF body.ownerPrivateKey = NotAKey
           THEN [same EXCEPT !.chain = [chain EXCEPT ![index] =
                                          updateBlockUnsigned(chain[index], now)]]
           ELSE written(index, updateBlock(chain[index], now, body.ownerPrivateKey),
                        body.blockHash)
  IN  /\ apiCall.calls < MaxCalls
      /\ apiCall' = [call EXCEPT !.status =
                       IF status # 0 THEN status
                       ELSE IF body.encryptionKey # DataKey
                               \/ body.ownerPrivateKey = NotAKey THEN 500
                       ELSE 200]
      /\ chain' = w.chain
      /\ chainHash' = w.chainHash
      /\ chainSignature' = w.chainSignature
      /\ UNCHANGED <<genesisBlock, masterKeyPair, ret, hsResponse, hsResult, staged,
                     gossipVars, ledgerCall, procVars, blockCall, netCall,
                     syncTask, server, hsRound, outbox, inbox>>

\* the requests: every owner key against every block with the registrar
\* part in order, and requests that fail a check before the block is touched
UpdateBodies ==
  { [blockHash |-> hash, newData |-> "d1", encryptionKey |-> key,
     ownerPrivateKey |-> owner, registrarPrivateKey |-> "R1", isArray |-> "true",
     signatures |-> <<signEd25519(stringify("d1"), "R2"),
                      signEd25519(stringify("d1"), "R3")>>] :
      hash \in HashInputs, key \in {DataKey, "other"},
      owner \in {Owner, Intruder, NotAKey} }
    \cup
  { [blockHash |-> hash, newData |-> "d1", encryptionKey |-> DataKey,
     ownerPrivateKey |-> owner, registrarPrivateKey |-> registrar, isArray |-> a,
     signatures |-> sigs] :
      hash \in HashInputs \cup {NullHash}, owner \in {Null, Owner},
      registrar \in {NotAKey, Intruder, "R2"}, a \in {Null, "false", "true"},
      sigs \in {<<signEd25519(stringify("d1"), "R2"),
                  signEd25519(stringify("d1"), "R3")>>,
                <<signEd25519(stringify("d1"), "R3")>>} }

InitUpdate == InitPersist

NextUpdate ==
  \E body \in UpdateBodies, requiredSigs \in 1..MaxSigs, now \in Times :
    handleUpdateRequest(body, requiredSigs, now)

SpecUpdate == InitUpdate /\ [][NextUpdate]_vars

(***************************************************************************)
(* A node that took its chain from a peer and then changes it: chain.mjs   *)
(* replaceChain followed by addBlock, updateBlockInChain, removeBlock      *)
(***************************************************************************)
\* what a peer that holds the master key pair serves: a chain, its hash and
\* the master signature over the hash
SignedChains ==
  { [chain |-> c, chainHash |-> calculateChainHash(genesisBlock, c),
     chainSignature |-> signEd25519(calculateChainHash(genesisBlock, c), MasterKey)] :
      c \in LocalChains }

InitSigned == InitLedger

NextSigned ==
  \/ /\ ret.op = "none"
     /\ \E s \in SignedChains : replaceChain(s.chain, s.chainHash, s.chainSignature)
  \/ \E b \in AddInputs : addBlock(b)
  \/ /\ ledgerCall.calls < MaxCalls
     /\ \E hash \in HashInputs :
          \E b \in UpdateInputs(hash) : updateBlockInChain(hash, b)
  \/ /\ ledgerCall.calls < MaxCalls
     /\ \E hash \in HashInputs : removeBlock(hash)

SpecSigned == InitSigned /\ [][NextSigned]_vars

(***************************************************************************)
(* network.mjs discoverAndConnect after its handshakeWithPeers returned:   *)
(* the first revision of the caller (part_005) goes with the first         *)
(* revision of handshakeWithPeers, the second with the second              *)
(***************************************************************************)
\* { address, chainLength, lastUpdated, needsSync }
PeerInfo(address, result) ==
  [address |-> address, chainLength |-> result.peerChainLength,
   lastUpdated |-> result.peerLastUpdated, needsSync |-> result.needsSync]

\* the successful results paired with peers[i], i the position of the
\* result in the array handshakeWithPeers returned. The second revision
\* loops over i; the first maps the successful results to
\* peers[handshakeResults.indexOf(r)], and every result is an object of its
\* own, so indexOf(r) is its position
connectedPeersOf(handshakeResults) ==
  LET pick[n \in 0..Len(handshakeResults)] ==
        IF n = 0 THEN <<>>
        ELSE IF handshakeResults[n].valid
             THEN Append(pick[n - 1], PeerInfo(PeerAddresses[n], handshakeResults[n]))
             ELSE pick[n - 1]
  IN  pick[Len(handshakeResults)]

\* discoverAndConnect from the return of handshakeWithPeers to the call of
\* syncWithBestPeer
discoverAndConnectResumes ==
  /\ hsRound.pc = "returned"
  /\ LET connected == connectedPeersOf(hsRound.returned)
     IN  roundStep([hsRound EXCEPT
                      !.pc = "connected",
                      !.connectedPeers = connected,
                      !.activePeers = { connected[i].address :
                                          i \in 1..Len(connected) },
                      !.peersNeedingSync =
                         SelectSeq(connected, LAMBDA p : p.needsSync = "true")])

InitDiscover == InitBestPeer

NextDiscover ==
  \/ \E revision \in {1, 2}, answers \in [Peers -> PeerAnswers] :
       handshakeWithPeers(revision, answers)
  \/ \E a \in Peers : performHandshakeReturns(a)
  \/ \E a \in Peers : sendHandshakeStalls(a)
  \/ handshakeWithPeersReturns
  \/ discoverAndConnectResumes

SpecDiscover == InitDiscover /\ [][NextDiscover]_vars

(***************************************************************************)
(* index.mjs handleRegister, several requests in flight (C37)              *)
(*                                                                         *)
(* A request runs without interruption up to an await and from an await to *)
(* the next one.  After its checks and its key generation handleRegister   *)
(* reads the tail hash, calls createBlock and awaits the promise it        *)
(* returns; the rest of the handler, starting with chain.addBlock, runs    *)
(* when that promise has settled.  Other requests may run in between.      *)
(***************************************************************************)
\* handleRegister from the request's arrival to `await block.createBlock(...)`
registerBegins(r, body, requiredSigs, now) ==
  LET status == registerChecks(body, requiredSigs)
      prevHash == tailHash(chain)
      newBlock == createBlock(Payload, now, Owner, prevHash)
      request == IF status # 0
                 THEN [NoRequest EXCEPT !.pc = "done", !.status = status]
                 ELSE [NoRequest EXCEPT !.pc = "created", !.prevHash = prevHash,
                                        !.block = newBlock]
  IN  /\ apiCall.requests[r].pc = "idle"
      /\ apiCall' = [apiCall EXCEPT !.op = "handleRegister",
                                    !.requests[r] = request]
      /\ UNCHANGED <<genesisBlock, masterKeyPair, chain, chainHash, chainSignature,
                     ret, hsResponse, hsResult, staged,
                     gossipVars, ledgerCall, procVars, blockCall, netCall,
                     syncTask, server, hsRound, outbox, inbox>>

\* handleRegister from chain.addBlock(newBlock) to its response
registerResumes(r) ==
  LET request == apiCall.requests[r]
      added == addBlockAccepts(chain, request.block)
      c == Append(chain, request.block)
      u == updateChainHash(genesisBlock, masterKeyPair, c, chainSignature)
  IN  /\ request.pc = "created"
      /\ chain' = IF added THEN c ELSE chain
      /\ chainHash' = IF added THEN u[1] ELSE chainHash
      /\ chainSignature' = IF added THEN u[2] ELSE chainSignature
      /\ apiCall' = [apiCall EXCEPT
                       !.requests[r] = [request EXCEPT
                          !.pc = "done",
                          !.status = IF added THEN 201 ELSE 500,
                          !.appended = IF added THEN request.appended + 1
                                       ELSE request.appended]]
      /\ UNCHANGED <<genesisBlock, masterKeyPair, ret, hsResponse, hsResult, staged,
                     gossipVars, ledgerCall, procVars, blockCall, netCall,
                     syncTask, server, hsRound, outbox, inbox>>

\* the requests that carry the signatures of two registrars: with and without
\* the fields the checks ask for, from an authorised registrar or not
ConcurrentBodies ==
  { body \in RegisterBodies :
      body.signatures = <<signEd25519(stringify("d1"), "R2"),
                          signEd25519(stringify("d1"), "R3")>> }

InitConcurrent == InitPersist

NextConcurrent ==
  \/ \E r \in Requests, body \in ConcurrentBodies, now \in Times :
       registerBegins(r, body, RequiredRegistration, now)
  \/ \E r \in Requests : registerResumes(r)

SpecConcurrent == InitConcurrent /\ [][NextConcurrent]_vars

(***************************************************************************)
(* Two connected nodes with the same chain (C38)                           *)
(*                                                                         *)
(* The peer holds the genesis block and the chain this node holds, so what *)
(* it writes is what this node's own createHandshakeMessage and            *)
(* createGossipMessage build.  Both nodes run the same code, so the steps  *)
(* of this node are the steps of either one.                               *)
(***************************************************************************)
\* peer-gossip.mjs createGossipMessage
createGossipMessage ==
  LET metadata == getChainMetadata
  IN  [type |-> "GOSSIP",
       chainLength |-> metadata.length,
       chainHash |-> metadata.chainHash,
       lastUpdated |-> metadata.lastUpdated]

\* peer-sync.mjs requestSync: the request written to the peer
SyncRequest(peerAddress, fromIndex) ==
  [fn |-> "requestSync", revision |-> 0,
   message |-> [type |-> "SYNC_REQUEST", fromIndex |-> fromIndex,
                peerAddress |-> peerAddress]]

\* validateHandshakeResponse of the given revision of peer-handshake.mjs
validateHandshakeResponseOf(revision, response) ==
  IF revision = 1 THEN validateHandshakeResponse(genesisBlock, chain, response)
  ELSE validateHandshakeResponseDocumented(genesisBlock, chain, response)

\* discoverAndConnect with one peer: the peer answers the handshake with its
\* handleHandshake, this node validates the answer and, when the result has
\* needsSync, hands the peer to syncWithBestPeer, which requests a sync
peerHandshakeAnswered(peerAddress, theirs, ours) ==
  LET response == [createHandshakeMessage(theirs) EXCEPT !.type = "HANDSHAKE_RESPONSE"]
      result == validateHandshakeResponseOf(ours, response)
      fromIndex == IF result.peerChainLength > Len(chain) THEN Len(chain) ELSE 0
  IN  /\ hsResponse' = response
      /\ hsResult' = result
      /\ outbox' = IF result.valid /\ result.needsSync = "true"
                   THEN SyncRequest(peerAddress, fromIndex)
                   ELSE outbox
      /\ UNCHANGED <<ledger, ret, staged, gossipVars, ledgerCall, procVars,
                     blockCall, netCall, syncTask, server, hsRound, apiCall, inbox>>

\* network.mjs handleIncomingMessage, case 'GOSSIP': handleGossip and, on
\* the action 'sync', syncWithPeer(peerAddress), which requests a sync from 0
peerGossipReceived(peerAddress, now) ==
  LET message == createGossipMessage
      gossipAction == handleGossipResult(message, peerAddress, getChainMetadata)
  IN  /\ connectedPeers' = [connectedPeers EXCEPT ![peerAddress] =
                              [chainLength |-> message.chainLength,
                               chainHash |-> message.chainHash,
                               lastUpdated |-> message.lastUpdated,
                               lastSeen |-> now]]
      /\ gossipCall' = [message |-> message, peerAddress |-> peerAddress]
      /\ gossipResult' = gossipAction
      /\ outbox' = IF gossipAction.action = "sync"
                   THEN SyncRequest(gossipAction.peerAddress, 0)
                   ELSE outbox
      /\ UNCHANGED <<ledger, ret, hsResponse, hsResult, staged, ledgerCall, procVars,
                     blockCall, netCall, syncTask, server, hsRound, apiCall, inbox>>

InitQuiet == InitPersist

NextQuiet ==
  \/ \E peerAddress \in Peers, theirs \in {1, 2}, ours \in {1, 2} :
       peerHandshakeAnswered(peerAddress, theirs, ours)
  \/ \E peerAddress \in Peers, now \in Times : peerGossipReceived(peerAddress, now)

SpecQuiet == InitQuiet /\ [][NextQuiet]_vars

(***************************************************************************)
(* storage: initStorage and acquireLock in several processes (C39)         *)
(*                                                                         *)
(* The processes share the storage directory and nothing else.  Each one   *)
(* is suspended at `await fs.readFile(lockPath)` and again at              *)
(* `await fs.writeFile(lockPath, ...)`; the file system serves the calls   *)
(* of different processes in any order.  boot.clock is Date.now().         *)
(***************************************************************************)
\* the lock a process finds is stale: now - lock.timestamp < 5 * 60 * 1000
\* does not hold
isStale(lock, now) == ~(now - lock.timestamp < StaleTicks)

storageStep(b) ==
  /\ boot' = b
  /\ UNCHANGED <<ledger, ret, hsResponse, hsResult, staged, gossipVars, ledgerCall,
                 syncRun, blockOp, ioVars>>

\* time passes
clockTicks ==
  /\ boot.clock < MaxTime
  /\ storageStep([boot EXCEPT !.clock = boot.clock + 1])

\* a process that ended without releaseLock has left its lock file behind
lockLeftBehind ==
  /\ ~boot.lock.exists
  /\ \A p \in Processes : boot.storage[p].pc = "idle"
  /\ storageStep([boot EXCEPT !.lock = [exists |-> TRUE, pid |-> 0,
                                        timestamp |-> boot.clock]])

\* initStorage up to acquireLock's `await fs.readFile(lockPath, 'utf8')`
initStorage(p) ==
  /\ boot.storage[p].pc = "idle"
  /\ storageStep([boot EXCEPT !.storage[p].pc = "reading"])

\* readFile settles: acquireLock throws on a lock that is not stale, and
\* otherwise goes on to `await fs.writeFile(lockPath, ...)` with the lock
\* { pid, timestamp: Date.now() }
readFileSettles(p) ==
  LET lock == boot.lock
      now == boot.clock
      read == IF ~lock.exists THEN "ENOENT"
              ELSE IF isStale(lock, now) THEN "stale" ELSE "locked"
  IN  /\ boot.storage[p].pc = "reading"
      /\ storageStep([boot EXCEPT !.storage[p] =
           IF read = "locked"
           THEN [@ EXCEPT !.pc = "failed", !.read = read,
                          !.error = "Storage is locked by another process"]
           ELSE [@ EXCEPT !.pc = "writing", !.read = read, !.timestamp = now]])

\* writeFile settles: the lock file is this process's and lockAcquired = true
writeFileSettles(p) ==
  /\ boot.storage[p].pc = "writing"
  /\ storageStep([boot EXCEPT
       !.lock = [exists |-> TRUE, pid |-> p, timestamp |-> boot.storage[p].timestamp],
       !.storage[p] = [@ EXCEPT !.pc = "ready", !.lockAcquired = TRUE]])

InitStorage == InitPersist

NextStorage ==
  \/ clockTicks
  \/ lockLeftBehind
  \/ \E p \in Processes : initStorage(p)
  \/ \E p \in Processes : readFileSettles(p)
  \/ \E p \in Processes : writeFileSettles(p)

SpecStorage == InitStorage /\ [][NextStorage]_vars

(***************************************************************************)
(* Chain replacement (C1 - C3)                                             *)
(***************************************************************************)
\* C1: replaceChain on a chain that passes verifyChainIntegrity, with a
\* candidate whose top-level signature verifies against the genesis
\* masterPubKey but in which an interior prevHash link is broken, returns
\* false and leaves the block sequence, chainHash and chainSignature exactly
\* as they were, still passing verifyChainIntegrity.
C1_RollbackAtomicity ==
  [][ ( /\ ret'.op = "replaceChain"
        /\ verifyChainIntegrity
        /\ ret'.facts.sigOK
        /\ ~ret'.facts.linksOK )
      => ( /\ ret'.ret = "false"
           /\ chain' = chain
           /\ chainHash' = chainHash
           /\ chainSignature' = chainSignature
           /\ verifyChainIntegrity' ) ]_vars

C1_Witness ==
  /\ ret.op = "replaceChain"
  /\ ret.facts.sigOK /\ ret.facts.hashOK /\ ret.facts.blocksOK
  /\ ~ret.facts.linksOK
  /\ ret.ret = "false"
  /\ Len(chain) > 0
  /\ verifyChainIntegrity

\* C2: a replaceChain that returns true has installed its candidate, the
\* candidate passes every check (block hashes, block signatures, prevHash
\* links, chainHash, chainSignature against masterPubKey) and the installed
\* state satisfies verifyChainIntegrity; a candidate that fails a check is
\* not installed: the call does not return true and the state is unchanged.
C2_InstalledOnlyIfIntegral ==
  [][ ret'.op = "replaceChain" =>
        /\ ret'.ret = "true" =>
              /\ CandidateIntegral(ret'.facts)
              /\ Len(chain') = ret'.facts.len
              /\ verifyChainIntegrity'
              /\ verifyChainAuthenticity(chainHash', chainSignature',
                                         genesisBlock'.masterPubKey)
        /\ ~CandidateIntegral(ret'.facts) =>
              /\ ret'.ret # "true"
              /\ chain' = chain
              /\ chainHash' = chainHash
              /\ chainSignature' = chainSignature ]_vars

C2_Witness ==
  /\ ret.op = "replaceChain"
  /\ ret.ret = "true"
  /\ Len(chain) > 1
  /\ verifyChainIntegrity

\* C3: in every state reached by successful addBlock and replaceChain calls
\* the first block's prevHash is null and every later block's prevHash is
\* the hash of the block before it.
C3_LinkageInvariant ==
  /\ Len(chain) > 0 => chain[1].prevHash = NullHash
  /\ \A i \in 2..Len(chain) : chain[i].prevHash = chain[i-1].hash

(***************************************************************************)
(* Synchronisation (C4 - C7)                                               *)
(***************************************************************************)
synced == ret.op \in {"applySyncData", "applySyncDataReplace"}

\* C4: after an applySyncData call that returns true the local chain is
\* unchanged, strictly longer, or of equal length with a strictly newer
\* lastUpdated; a successful sync never shortens the local chain.
C4_SyncNeverShortens ==
  [][ synced' /\ ret'.ret = "true" =>
        \/ chain' = chain
        \/ Len(chain') > Len(chain)
        \/ /\ Len(chain') = Len(chain)
           /\ lastUpdatedOf(chain') > lastUpdatedOf(chain) ]_vars

\* C5: node A holds a chain of length n, node B with the same genesis holds
\* an authentic extension of it of length m > n; when A applies B's answer
\* to a sync request with fromIndex = n, A's block sequence becomes B's
\* (length m) and verifyChainIntegrity holds on A.
C5_SyncConvergence ==
  [][ ( /\ synced'
        /\ genesisBlock # NoGenesis
        /\ ret'.sync.honest )
      => ( /\ ret'.ret = "true"
           /\ Len(chain') = Len(chain) + ret'.sync.blocks
           /\ Len(chain') > Len(chain)
           /\ SubSeq(chain', 1, Len(chain)) = chain
           /\ verifyChainIntegrity' ) ]_vars

C7_GenesisAdoption ==
  [][ ret'.op = "applySyncData" /\ genesisBlock = NoGenesis =>
        /\ genesisBlock' # NoGenesis => ret'.sync.candidate = "valid"
        /\ ret'.sync.candidate # "valid" =>
              /\ ret'.ret = "false"
              /\ genesisBlock' = NoGenesis
              /\ ~ret'.sync.replaced ]_vars

(***************************************************************************)
(* Handshake validation (C8 - C10)                                         *)
(***************************************************************************)
validated == ret.op \in {"validateHandshakeResponse", "validateHandshakeResponseDocumented"}

chainIdMismatch ==
  /\ hsResponse.chainId # Null
  /\ getChainMetadata.chainId # Null
  /\ hsResponse.chainId # getChainMetadata.chainId

peerIsAhead ==
  \/ hsResponse.chainLength > Len(chain)
  \/ /\ hsResponse.chainLength = Len(chain)
     /\ hsResponse.lastUpdated > getChainMetadata.lastUpdated

\* C8: validateHandshakeResponse never answers valid with needsSync for a
\* response that reports a longer chain unless the response carries a
\* chainHash, chainSignature and masterPubKey for which the signature
\* verifies.
C8_LongerChainAuthenticated ==
  ( /\ validated
    /\ hsResult.valid
    /\ hsResult.needsSync = "true"
    /\ hsResponse.chainLength > Len(chain) )
  => ( /\ presentsChainProof(hsResponse)
       /\ verifyEd25519(hsResponse.chainHash, hsResponse.chainSignature,
                        hsResponse.masterPubKey) )

\* C9: validateHandshakeResponse rejects with a reason an absent response,
\* a response of another type and a response whose non-null chainId differs
\* from the local non-null chainId, returning no needsSync in the mismatch
\* case; a null chainId on either side is not a reason to reject.
C9_HandshakeRejection ==
  validated =>
    /\ ( \/ hsResponse = NoResponse
         \/ hsResponse.type # "HANDSHAKE_RESPONSE"
         \/ chainIdMismatch )
       => ( /\ ~hsResult.valid
            /\ hsResult.reason # Null )
    /\ ( hsResponse # NoResponse /\ hsResponse.type = "HANDSHAKE_RESPONSE"
         /\ chainIdMismatch )
       => ( /\ hsResult.reason = "Different chain ID"
            /\ hsResult.needsSync = "absent" )
    /\ ( /\ hsResponse # NoResponse
         /\ hsResponse.type = "HANDSHAKE_RESPONSE"
         /\ (hsResponse.chainId = Null \/ getChainMetadata.chainId = Null) )
       => ( /\ hsResult.reason # "Different chain ID"
            /\ ~presentsChainProof(hsResponse) => hsResult.valid )

C9_Witness ==
  /\ validated
  /\ hsResponse.type = "HANDSHAKE_RESPONSE"
  /\ chainIdMismatch
  /\ hsResponse.chainLength > Len(chain)
  /\ ~hsResult.valid
  /\ hsResult.reason = "Different chain ID"

\* C10: for every valid handshake response needsSync is true exactly when
\* the peer's chainLength is greater than the local length, or equal with
\* the peer's lastUpdated newer than the local lastUpdated.
C10_NeedsSyncExact ==
  validated /\ hsResult.valid =>
    (hsResult.needsSync = "true" <=> peerIsAhead)

(***************************************************************************)
(* Gossip (C11)                                                            *)
(***************************************************************************)
\* C11: handleGossip on a GOSSIP message returns action sync with the
\* sender's peerAddress when the reported chainLength is greater than the
\* local length, or equal with a newer lastUpdated; it returns ignore when
\* the length is equal with an equal or older lastUpdated or when the peer's
\* chain is shorter; in each case the sender's summary is recorded in
\* connectedPeers.
C11_GossipSyncCondition ==
  LET m == gossipCall.message
      local == getChainMetadata
  IN  ret.op = "handleGossip" /\ m.type = "GOSSIP" =>
        /\ ( \/ m.chainLength > Len(chain)
             \/ m.chainLength = Len(chain) /\ m.lastUpdated > local.lastUpdated )
           => ( /\ gossipResult.action = "sync"
                /\ gossipResult.peerAddress = gossipCall.peerAddress )
        /\ ( \/ m.chainLength < Len(chain)
             \/ m.chainLength = Len(chain) /\ m.lastUpdated <= local.lastUpdated )
           => gossipResult.action = "ignore"
        /\ connectedPeers[gossipCall.peerAddress].chainLength = m.chainLength
        /\ connectedPeers[gossipCall.peerAddress].chainHash = m.chainHash
        /\ connectedPeers[gossipCall.peerAddress].lastUpdated = m.lastUpdated

C11_Witness ==
  /\ ret.op = "handleGossip"
  /\ gossipCall.message.type = "GOSSIP"
  /\ Len(chain) > 0
  /\ gossipCall.message.chainLength = Len(chain)
  /\ gossipCall.message.lastUpdated = lastUpdatedOf(chain)
  /\ gossipResult.action = "ignore"
  /\ connectedPeers[gossipCall.peerAddress].lastSeen # NullTime

(***************************************************************************)
(* Adding, updating and removing a block (C12 - C14)                       *)
(***************************************************************************)
\* {chainId, ordered block hashes, length} hashed
hashOfChain(g, c) ==
  sha512(<<"chainData", g.chainId, [i \in 1..Len(c) |-> c[i].hash], Len(c)>>)

C15_SignatureBeforeStaging ==
  [][ ( /\ ret'.op = "replaceChain"
        /\ genesisBlock # NoGenesis
        /\ ~ret'.facts.sigOK )
      => ( /\ ret'.ret = "false"
           /\ ~staged'
           /\ chain' = chain
           /\ chainHash' = chainHash
           /\ chainSignature' = chainSignature ) ]_vars

C15_Witness ==
  /\ ret.op = "replaceChain"
  /\ genesisBlock # NoGenesis
  /\ ~ret.facts.sigOK
  /\ ret.facts.hashOK /\ ret.facts.blocksOK /\ ret.facts.linksOK
  /\ ret.facts.len > 0
  /\ ret.ret = "false"
  /\ ~staged
  /\ Len(chain) > 0

networkBootstrapEnded ==
  /\ boot.branch = "network"
  /\ boot.pc = "verify" \/ (boot.pc = "exited" /\ boot.error # Null)

\* C18: a node with no stored chain bootstraps entirely from a remote peer:
\* the peer's answer to a sync request from index 0 carries all blocks and
\* the genesis data, so that when the branch has ended the node holds the
\* peer's trust anchor and the peer's full chain.
C18_ZeroStateBootstrap ==
  networkBootstrapEnded =>
    LET peer == boot.net[boot.bestPeer.address]
    IN  Len(peer.chain) > 0 =>
          /\ verifyGenesisBlock(genesisBlock)
          /\ genesisBlock.chainId = peer.genesisBlock.chainId
          /\ chain = peer.chain
          /\ chainHash = peer.chainHash

(***************************************************************************)
(* Choice of the peer to sync with (C17)                                   *)
(***************************************************************************)
\* peer a ranks strictly before peer b: longer chain, or as long and
\* updated later
outranks(a, b) ==
  \/ a.chainLength > b.chainLength
  \/ a.chainLength = b.chainLength /\ a.lastUpdated > b.lastUpdated

\* the entry of the peer list with the given address
entryOf(address) ==
  syncRun.peers[CHOOSE i \in 1..Len(syncRun.peers) :
                  syncRun.peers[i].address = address]

\* C17: syncWithBestPeer ranks the peers by chain length, then lastUpdated,
\* both descending, and tries the top one first; after a failure it tries
\* the next in rank order, at most two further attempts; it returns true at
\* the first success and false when every attempt failed or the list is
\* empty.
C17_BestPeerWithRetries ==
  syncRun.calls > 0 =>
    LET n == Len(syncRun.peers)
        a == syncRun.attempts
        tried == { a[i] : i \in 1..Len(a) }
    IN  /\ n = 0 => Len(a) = 0 /\ syncRun.ret = "false"
        /\ n > 0 => Len(a) >= 1 /\ Len(a) <= 3
        /\ \A i \in 1..Len(a) : \A j \in 1..n :
             /\ syncRun.peers[j].address \notin tried
                  => ~outranks(syncRun.peers[j], entryOf(a[i]))
        /\ \A i, j \in 1..Len(a) : i < j => ~outranks(entryOf(a[j]), entryOf(a[i]))
        /\ \A i \in 1..(Len(a) - 1) : syncRun.outcomes[i] = "false"
        /\ syncRun.ret = "true" <=> (Len(a) > 0 /\ syncRun.outcomes[Len(a)] = "true")
        /\ syncRun.ret = "false" => Len(a) = (IF n < 3 THEN n ELSE 3)

(***************************************************************************)
(* Block model (C19, C20)                                                  *)
(***************************************************************************)
\* C19: in every reachable state the hash of every block held in the chain
\* equals the hash recomputed over its encryptedData, tokens, hashed
\* metadata fields and prevHash, also after updateBlock, rotateBlockKey,
\* markAsDeceased, updateLifecycleStage, the issue of a token and the use of
\* a token in a verification.
C19_HashMatchesContent ==
  \A i \in 1..Len(chain) : verifyBlockHash(chain[i])

\* the position of a stage on the way genesis, guardian, self, expired
stageRank(stage) ==
  CASE stage = "genesis" -> 0
    [] stage = "guardian" -> 1
    [] stage = "self" -> 2
    [] OTHER -> 3

\* C20: no block model operation (updateBlock, rotateBlockKey with any
\* newStage, markAsDeceased, updateLifecycleStage) raises rotationsLeft or
\* moves lifecycleStage backward along genesis, guardian, self, expired.
C20_LifecycleMonotone ==
  [][ \A i \in 1..Len(chain) :
        /\ Len(chain') = Len(chain)
        /\ chain'[i].rotationsLeft <= chain[i].rotationsLeft
        /\ stageRank(chain'[i].lifecycleStage) >= stageRank(chain[i].lifecycleStage)
    ]_vars

(***************************************************************************)
(* Rotation exhaustion (C21)                                               *)
(***************************************************************************)
\* C21: rotateBlockKey on a block whose rotationsLeft is 0 or less fails, and
\* the block's encryptedData, hash, signature, ownerPubKey, lifecycleStage
\* and rotationsLeft are afterwards what they were before the call.
C21_RotationExhaustion ==
  (blockCall.op = "rotateBlockKey" /\ blockCall.before.rotationsLeft <= 0) =>
    /\ blockCall.ret = "threw"
    /\ blockCall.block.encryptedData = blockCall.before.encryptedData
    /\ blockCall.block.hash = blockCall.before.hash
    /\ blockCall.block.signature = blockCall.before.signature
    /\ blockCall.block.ownerPubKey = blockCall.before.ownerPubKey
    /\ blockCall.block.lifecycleStage = blockCall.before.lifecycleStage
    /\ blockCall.block.rotationsLeft = blockCall.before.rotationsLeft

\* the last rotation of a block succeeded and the next call found none left
C21_Witness ==
  /\ blockCall.op = "rotateBlockKey"
  /\ blockCall.before.rotationsLeft = 0
  /\ blockCall.before.ownerPubKey = NewOwner
  /\ blockCall.ret = "threw"

(***************************************************************************)
(* Outbound calls settle (C22)                                             *)
(***************************************************************************)
\* C22: every sendHandshake and requestSync call settles, with a result or a
\* failure, whatever the peer sends and whether or not it closes the
\* connection.
C22_OutboundCallSettles ==
  (netCall.fn \in ReadingCalls /\ netCall.pc = "pending")
    ~> (netCall.pc \in {"resolved", "rejected"})

(***************************************************************************)
(* Single-peer failures are contained (C23)                                *)
(***************************************************************************)
\* what the caller of performHandshake, syncWithPeer, sendGossipToPeer or
\* broadcastToPeer got back: nothing yet, a success value, a failure value,
\* or an exception
returnedOf(call) ==
  IF call.fn \in WritingCalls
  THEN CASE call.pc = "resolved" -> IF call.reason = "true" THEN "success" ELSE "failure"
         [] call.pc = "rejected" -> "threw"
         [] OTHER -> "none"
  ELSE call.returned

\* no exception leaves a peer interaction, and one that failed left the
\* ledger as it found it
failureContained ==
  /\ returnedOf(netCall) # "threw"
  /\ returnedOf(netCall) = "failure" =>
       netCall.before = ledgerRecord(genesisBlock, masterKeyPair, chain, chainHash,
                                     chainSignature)

\* the await of performHandshake or syncWithPeer has completed, or the
\* promise sendGossipToPeer or broadcastToPeer returned has settled: the
\* caller gets its value
completes(call) == call.pc \in {"resolved", "rejected"}

\* C23: a peer interaction that fails (refused, timed out, malformed or
\* oversized response) never throws out of performHandshake, syncWithPeer,
\* sendGossipToPeer or broadcastToPeer: the call completes, with a failure
\* value when the interaction failed, and the local chain is then unchanged.
C23_PeerFailureContained ==
  /\ []failureContained
  /\ (netCall.pc = "pending") ~> completes(netCall)

\* C24: with gossip-triggered and timer-triggered sync attempts running
\* beside each other and beside addBlock, updateBlockInChain and removeBlock,
\* the block sequence, chainHash and chainSignature change only in a step of
\* one operation that succeeds; a sync attempt whose replaceChain succeeds
\* leaves a state that passes verifyChainIntegrity, whatever was requested
\* or applied in between; and a sync attempt that does not succeed leaves
\* the three values as they were.
C24_ReplaceLinearized ==
  [][ /\ (<<chain, chainHash, chainSignature>>' # <<chain, chainHash, chainSignature>>)
         => ret'.ret = "true"
      /\ \A t \in SyncTasks :
           (syncTask'[t] # syncTask[t] /\ syncTask[t].pc = "requested") =>
             /\ syncTask'[t].pc = "saving" =>
                  /\ ret'.ret = "true"
                  /\ verifyChainIntegrity'
             /\ ret'.ret # "true" =>
                  <<chain, chainHash, chainSignature>>' =
                    <<chain, chainHash, chainSignature>> ]_vars

\* C25: however the bytes of an inbound connection are cut into chunks, the
\* messages dispatched so far are exactly the JSON messages among the
\* newline-terminated lines of the text received so far, each once and in
\* the order sent; a line cut by a chunk boundary waits for its newline and
\* a malformed line is dropped without effect on the lines after it.
C25_FramingIndependentOfChunks ==
  LET lines == split(toString(server.received))
  IN  server.pc = "connected" =>
        server.dispatched = dispatch(SubSeq(lines, 1, Len(lines) - 1))

\* the successful results the addresses whose peers answer with a valid
\* response are due, in the order of the addresses
dueResults(round) ==
  SelectSeq(
    [i \in 1..Len(PeerAddresses) |->
       performHandshakeResult(round.revision, round.answers[PeerAddresses[i]])],
    LAMBDA v : v.valid)

\* C26: handshakeWithPeers handshakes with every address, whatever the
\* other addresses do: the call returns (it never rejects and never waits
\* for ever), and the successful results it returns are those of the
\* addresses whose peers gave a valid response, with their needsSync,
\* peerChainLength and peerLastUpdated, whether the other addresses
\* refused, timed out or broke off.
C26_HandshakesIndependent ==
  /\ [](hsRound.pc = "returned" =>
          SelectSeq(hsRound.returned, LAMBDA v : v.valid) = dueResults(hsRound))
  /\ (hsRound.pc = "waiting") ~> (hsRound.pc = "returned")

\* C27: an applySyncData that replaced the chain returns true only once the
\* snapshot of the new chain has been written: whenever the call has
\* returned true after a replaceChain, the write of chain.json has
\* completed, and a call whose write failed has not returned true.
C27_PersistBeforeSuccess ==
  \A t \in SyncTasks :
    (syncTask[t].returned = "true" /\ syncTask[t].snapshot # "none") =>
      syncTask[t].snapshot = "written"

C29_HandshakeCarriesOwnState ==
  [][ (outbox' # outbox /\ outbox'.message.type \in {"HANDSHAKE", "HANDSHAKE_RESPONSE"}) =>
        /\ outbox'.message.chainLength = Len(chain)
        /\ outbox'.message.chainHash = chainHash
        /\ outbox'.message.chainSignature = chainSignature
        /\ outbox'.message.chainId = genesisBlock.chainId
        /\ outbox'.message.masterPubKey = genesisBlock.masterPubKey
        /\ outbox'.message.lastUpdated = lastUpdatedOf(chain) ]_vars

\* C30: when node A changes its chain (new block, block update, key
\* rotation, prune) and broadcasts the event to this node, whose chain was
\* A's before the change, then after this node processed the event its
\* block sequence and its chainHash equal A's.
C30_EventsReplicate ==
  [][ inbox'.events # inbox.events =>
        /\ chain' = inbox'.sender.chain
        /\ chainHash' = inbox'.sender.chainHash ]_vars

\* the token stored under tokenId in a set of tokens, NoToken if none
tokenOf(tokens, tokenId) ==
  IF \E t \in tokens : t.id = tokenId
  THEN CHOOSE t \in tokens : t.id = tokenId ELSE NoToken

\* C31: a permission token issued with maxUses = k authorises exactly k
\* verification requests: a verification with an owner-signed token that has
\* remainingUses > 0 and permits every field asked for is accepted and takes
\* exactly one use; a verification with a token at zero is rejected and
\* takes none; remainingUses never goes below zero.
C31_TokenUses ==
  [][ (apiCall'.calls # apiCall.calls /\ apiCall'.op = "handleVerify") =>
        LET index == apiCall'.index
            before == tokenOf(chain[index].tokens, apiCall'.tokenId)
            after == tokenOf(chain'[index].tokens, apiCall'.tokenId)
            permitted == \A i \in 1..Len(apiCall'.conditions) :
                           apiCall'.conditions[i] \in before.permissions
        IN  /\ after.remainingUses >= 0
            /\ (before.signature.signer = chain[index].ownerPubKey
                  /\ before.remainingUses > 0 /\ permitted)
                 => (apiCall'.error = Null
                       /\ after.remainingUses = before.remainingUses - 1)
            /\ before.remainingUses = 0
                 => (apiCall'.error # Null /\ after = before) ]_vars

\* C32: POST /api/update succeeds only if the ownerPrivateKey supplied
\* matches the ownerPubKey of the block it names; a request with another key
\* or with no key at all is rejected and leaves the block (data, metadata,
\* hash, signature) and the chain hash as they were.
C32_UpdateNeedsOwnerKey ==
  [][ (apiCall'.calls # apiCall.calls /\ apiCall'.op = "handleUpdate"
         /\ apiCall'.index > 0) =>
        LET index == apiCall'.index
            matches == apiCall'.ownerPrivateKey = chain[index].ownerPubKey
        IN  /\ apiCall'.status < 400 => matches
            /\ ~matches => /\ apiCall'.status >= 400
                           /\ chain'[index] = chain[index]
                           /\ chainHash' = chainHash ]_vars

\* C33: whenever chainSignature is not null it is a valid signature of the
\* trust anchor over the current chainHash; so on a node that knows only
\* the master public key and holds a chain signature obtained by sync,
\* verifyChainIntegrity still returns true after a successful addBlock,
\* updateBlockInChain or removeBlock.
C33_ChainSignatureValid ==
  chainSignature # NoSig =>
    verifyChainAuthenticity(chainHash, chainSignature, genesisBlock.masterPubKey)

\* C34: updateBlockInChain preserves chain integrity: when
\* verifyChainIntegrity holds before a successful updateBlockInChain on a
\* block that is not the tail, it holds afterwards (after the relink every
\* later block's hash and owner signature still verify).
C34_UpdateKeepsIntegrity ==
  [][ (ledgerCall'.calls # ledgerCall.calls
         /\ ret'.op = "updateBlockInChain" /\ ret'.ret = "true"
         /\ ledgerCall'.index < Len(chain)
         /\ verifyChainIntegrity) => verifyChainIntegrity' ]_vars

\* C35: after every HTTP mutation that edits a block of the chain and
\* answers with success (/api/update, /api/token, /api/rotate) the stored
\* chainHash is the hash recomputed over the current block hashes, and a
\* chain that passed verifyChainIntegrity before still passes it.
C35_ChainHashFresh ==
  [][ (blockOp'.calls # blockOp.calls
         /\ blockOp'.op \in {"handleUpdate", "handleIssueToken", "handleRotate"}
         /\ blockOp'.ret # "none") =>
        /\ chainHash' = calculateChainHash(genesisBlock, chain')
        /\ verifyChainIntegrity => verifyChainIntegrity' ]_vars

\* C36: every address discoverAndConnect adds to activePeers, and every
\* candidate it passes to syncWithBestPeer, is an address whose own
\* handshake succeeded in that round, with the chainLength, lastUpdated and
\* needsSync that same peer reported, whichever other handshakes failed.
C36_ResultsKeepTheirAddress ==
  hsRound.pc = "connected" =>
    /\ \A a \in hsRound.activePeers : hsRound.value[a].valid
    /\ \A i \in 1..Len(hsRound.connectedPeers) :
         hsRound.connectedPeers[i] =
           PeerInfo(hsRound.connectedPeers[i].address,
                    hsRound.value[hsRound.connectedPeers[i].address])
    /\ \A i \in 1..Len(hsRound.peersNeedingSync) :
         /\ hsRound.value[hsRound.peersNeedingSync[i].address].valid
         /\ hsRound.peersNeedingSync[i] =
              PeerInfo(hsRound.peersNeedingSync[i].address,
                       hsRound.value[hsRound.peersNeedingSync[i].address])

\* C37: whatever the interleaving of the POST /api/register requests, a block
\* that is appended names as prevHash the hash of the block that was the tail
\* at the moment of the append, a request whose prevHash went stale while its
\* block was being created is answered with an error and appends nothing, and
\* no request appends more than one block.
C37_ConcurrentRegisterLinks ==
  [][ \A r \in Requests :
        (apiCall.requests[r].pc = "created" /\ apiCall'.requests[r].pc = "done") =>
          LET request == apiCall.requests[r]
              stale == request.prevHash # tailHash(chain)
          IN  /\ Len(chain') > Len(chain) =>
                   /\ chain' = Append(chain, request.block)
                   /\ chain'[Len(chain')].prevHash = tailHash(chain)
              /\ stale => (chain' = chain /\ apiCall'.requests[r].status >= 400)
              /\ apiCall'.requests[r].appended <= 1 ]_vars

\* one request appended its block and another, which had read the same tail,
\* was turned away
C37_Witness ==
  \E r, q \in Requests :
    /\ apiCall.requests[r].appended = 1
    /\ apiCall.requests[q].pc = "done"
    /\ apiCall.requests[q].status = 500
    /\ apiCall.requests[q].prevHash = apiCall.requests[r].prevHash
    /\ Len(chain) > 0
    /\ chain[Len(chain)] = apiCall.requests[r].block

\* C38: between two connected nodes that hold the same chain, every handshake
\* validation yields needsSync = false, every gossip message is ignored, and
\* no SYNC_REQUEST is sent while neither chain changes.
C38_IdenticalChainsQuiet ==
  /\ hsResult.valid => hsResult.needsSync = "false"
  /\ gossipResult.action # "sync"
  /\ outbox.message.type # "SYNC_REQUEST"

\* C39: when no process has found a lock older than five minutes, at most
\* one of the processes that ran initStorage on the storage path has
\* lockAcquired = true, and of two processes that are through acquireLock one
\* has failed with 'Storage is locked by another process'.
C39_OneLockHolder ==
  (\A p \in Processes : boot.storage[p].read # "stale") =>
    \A p, q \in Processes :
      (p # q /\ boot.storage[p].lockAcquired) =>
        /\ ~boot.storage[q].lockAcquired
        /\ boot.storage[q].pc \in {"ready", "failed"} =>
             boot.storage[q].error = "Storage is locked by another process"

====
